---- MODULE Spec2Model ----
(***************************************************************************)
(* A model of the pico8code language server: the type algebra of           *)
(* server/src/document/typing.ts (with the string helpers of               *)
(* server/src/util.ts), the AST walker of server/src/document/explore.ts   *)
(* and the Document session of server/src/documents.ts.                    *)
(*                                                                         *)
(* JavaScript values are records tagged by the field k.  A string of the   *)
(* type notation is a sequence of tokens: every punctuation character the  *)
(* scanners of util.ts and typing.ts look at is one token, and a maximal   *)
(* run of other characters (an atom name, a parameter name, a key, "...")  *)
(* is one token, since no scanner looks inside such a run.                 *)
(***************************************************************************)
EXTENDS Integers, Sequences, FiniteSets, TLC

VARIABLES
    \* the type algebra (typing.ts): the inputs and the results of each call
    argA, argB, tstage, outRepresent, outParse, outSimplify, outSimplify2, outEquivalent,
    \* the walker (explore.ts): a SelfExplore object, and how far it is
    walk, wstage,
    \* the session (documents.ts)
    store,    \* the objects: [docs, luts, scopes]
    cache,    \* DocumentsManager.cache.get(uri): a Document, 0 for none
    calls,    \* the calls of the manager's handleOnDidChangeContent, in order of arrival
    dontBother, \* the setting parse.dontBother
    answer,   \* the last query and what it returned, until the next step
    good,     \* per Document: what its last finished walk left, and how its last change ended
    \* a query of a Document (documents.ts): the call of a handler and where it is
    query

typeVars == <<argA, argB, tstage, outRepresent, outParse, outSimplify, outSimplify2, outEquivalent>>

walkVars == <<walk, wstage>>

sessionVars == <<store, cache, calls, dontBother, answer, good>>

queryVars == <<query>>

vars == <<typeVars, walkVars, sessionVars, queryVars>>

-----------------------------------------------------------------------------
(* JavaScript values that are not types *)

Undefined == [k |-> "undefined"]
Null == [k |-> "null"]
Thrown(name) == [k |-> "throw", name |-> name]
IsThrown(v) == v.k = "throw"
\* !!v of an object or a type name
Truthy(v) == v # Undefined /\ v # Null

Min2(a, b) == IF a < b THEN a ELSE b
Max2(a, b) == IF a < b THEN b ELSE a

-----------------------------------------------------------------------------
(* typing.ts: the LuaType union *)

Atom(n) == [k |-> "atom", name |-> n]
TNil == Atom("nil")
TNumber == Atom("number")
TBoolean == Atom("boolean")
TString == Atom("string")
TAny == Atom("any")

\* LuaType[]
Tuple(items) == [k |-> "tuple", items |-> items]
\* LuaFunction; parameters is a sequence of [name, type]
Function(parameters, vararg, return) ==
    [k |-> "fn", parameters |-> parameters, vararg |-> vararg, return |-> return]
\* LuaTable; entries, sequence and typed are sequences of [key, type] in the
\* order Object.entries yields them (sequence: ascending integer keys)
Table(entries, sequence, true, false, typed) ==
    [k |-> "table", entries |-> entries, sequence |-> sequence,
     true |-> true, false |-> false, typed |-> typed]

\* an entry of a table's entries, sequence or typed keys
Entry(key, type) == [key |-> key, type |-> type]

\* a parameter of a function
Param(name, type) == [name |-> name, type |-> type]

EmptyTable == Table(<<>>, <<>>, Undefined, Undefined, Undefined)
\* { or: [a, b] }
Union(a, b) == [k |-> "or", or |-> <<a, b>>]
\* a parameter whose type is the very function object it belongs to (the
\* only cycle simplify builds); it stands for that function
Self == [k |-> "self"]

IsString(type) == type.k = "atom"
isLuaFunction(type) == type.k = "fn" /\ Truthy(type.return)
\* Array.prototype.entries makes `.entries` truthy on a LuaType[] as well
isLuaTable(type) == type.k \in {"table", "tuple"}
IsArray(type) == type.k = "tuple"
HasOwnOr(type) == type.k = "or"

MAX_DEPTH == 5

\* parameters[k].type of a function object, the cycle unfolded (k from 1)
ParamType(fn, k) == IF fn.parameters[k].type = Self THEN fn ELSE fn.parameters[k].type

-----------------------------------------------------------------------------
(* String primitives, on token sequences, with JavaScript's 0-based indices *)

Clamp(s, i) == IF i < 0 THEN 0 ELSE IF i > Len(s) THEN Len(s) ELSE i
\* str.substring(a, b)
substring(s, a, b) ==
    LET a1 == Clamp(s, a)
        b1 == Clamp(s, b)
    IN SubSeq(s, Min2(a1, b1) + 1, Max2(a1, b1))
\* str.substr(a) and str.substring(a)
substrFrom(s, a) == substring(s, a, Len(s))
\* str.substr(a, n)
substr(s, a, n) == IF n <= 0 THEN <<>> ELSE substring(s, a, a + n)
charAt(s, i) == IF 0 <= i /\ i < Len(s) THEN s[i + 1] ELSE ""
\* str.indexOf(c) for a one-token c
indexOf(s, c) ==
    LET hits == {i \in 1..Len(s) : s[i] = c}
    IN IF hits = {} THEN -1 ELSE (CHOOSE i \in hits : \A j \in hits : i <= j) - 1
\* str.indexOf("->")
indexOfArrow(s) ==
    LET hits == {i \in 1..(Len(s) - 1) : s[i] = "-" /\ s[i + 1] = ">"}
    IN IF hits = {} THEN -1 ELSE (CHOOSE i \in hits : \A j \in hits : i <= j) - 1
includes(s, c) == indexOf(s, c) > -1
trim(s) ==
    LET keep == {i \in 1..Len(s) : s[i] # " "}
    IN IF keep = {} THEN <<>>
       ELSE SubSeq(s, CHOOSE i \in keep : \A j \in keep : i <= j,
                      CHOOSE i \in keep : \A j \in keep : j <= i)

RECURSIVE join(_, _)
\* list.join(sep), sep a token sequence
join(list, sep) ==
    IF Len(list) = 0 THEN <<>>
    ELSE IF Len(list) = 1 THEN list[1]
    ELSE list[1] \o sep \o join(Tail(list), sep)

\* list.filter(_ => _) on strings: drops the empty ones
RECURSIVE filterNonEmpty(_)
filterNonEmpty(list) ==
    IF Len(list) = 0 THEN <<>>
    ELSE (IF list[1] = <<>> THEN <<>> ELSE <<list[1]>>) \o filterNonEmpty(Tail(list))

-----------------------------------------------------------------------------
(* util.ts: delimitSubstring, splitCarefully, the binary tree helpers *)

DelimitThrow == [ok |-> FALSE, start |-> 0, end |-> 0]

RECURSIVE delimitLoop(_, _, _, _, _, _)
delimitLoop(str, open, close, k, s, n) ==
    IF k >= Len(str) THEN DelimitThrow
    ELSE LET c == str[k + 1] IN
         IF c = open THEN delimitLoop(str, open, close, k + 1, IF n = 0 THEN k + 1 ELSE s, n + 1)
         ELSE IF c = close THEN
              IF n - 1 = 0 THEN [ok |-> TRUE, start |-> s, end |-> k]
              ELSE IF n - 1 < 0 THEN DelimitThrow
              ELSE delimitLoop(str, open, close, k + 1, s, n - 1)
         ELSE delimitLoop(str, open, close, k + 1, s, n)

\* [start, end] of the first delimited substring, or a SyntaxError (ok FALSE)
delimitSubstring(str, open, close) == delimitLoop(str, open, close, 0, 0, 0)

pairs == <<"(", ")", "[", "]", "{", "}">>
\* pairs.indexOf(c)
pairsIndexOf(c) ==
    IF \E i \in 1..6 : pairs[i] = c THEN (CHOOSE i \in 1..6 : pairs[i] = c) - 1 ELSE -1

SplitThrow == [ok |-> FALSE, list |-> <<>>]

RECURSIVE splitLoop(_, _, _, _, _, _)
splitLoop(str, sep, nbCut, k, l, r) ==
    IF k >= Len(str) \/ (nbCut # 0 /\ Len(r) = nbCut)
    THEN [ok |-> TRUE, list |-> Append(r, trim(substrFrom(str, l)))]
    ELSE LET c == str[k + 1]
             f == pairsIndexOf(c)
         IN IF f > -1 THEN
                IF f % 2 = 1 THEN SplitThrow
                ELSE LET d == delimitSubstring(substrFrom(str, k), pairs[f + 1], pairs[f + 2])
                     IN IF ~d.ok THEN SplitThrow
                        ELSE splitLoop(str, sep, nbCut, k + d.end + 1, l, r)
            ELSE IF c = sep
                 THEN splitLoop(str, sep, nbCut, k + 1, k + 1, Append(r, trim(substring(str, l, k))))
                 ELSE splitLoop(str, sep, nbCut, k + 1, l, r)

\* the trimmed pieces of str cut on sep outside brackets (nbCut 0: no limit),
\* or a SyntaxError (ok FALSE)
splitCarefully(str, sep, nbCut) == splitLoop(str, sep, nbCut, 0, 0, <<>>)

RECURSIVE flattenBinaryTree(_)
\* the leaves of a { or: [a, b] } tree, left to right; undefined for a leaf
flattenBinaryTree(root) ==
    IF HasOwnOr(root)
    THEN LET a == flattenBinaryTree(root.or[1])
             b == flattenBinaryTree(root.or[2])
         IN (IF a = Undefined THEN <<root.or[1]>> ELSE a)
            \o (IF b = Undefined THEN <<root.or[2]>> ELSE b)
    ELSE Undefined

RECURSIVE buildReduce(_, _)
buildReduce(acc, nodes) ==
    IF Len(nodes) = 0 THEN acc
    ELSE buildReduce(IF Truthy(acc) THEN Union(acc, nodes[1]) ELSE nodes[1], Tail(nodes))

\* nodes.reduce((acc, cur) => acc ? { or: [acc, cur] } : cur, null)
buildBinaryTree(nodes) == buildReduce(Null, nodes)

\* the first throw of a list of results, or Null
FirstThrown(list) ==
    LET hits == {i \in 1..Len(list) : IsThrown(list[i])}
    IN IF hits = {} THEN Null ELSE list[CHOOSE i \in hits : \A j \in hits : i <= j]

-----------------------------------------------------------------------------
(* typing.ts: represent *)

\* the decimal notation of a sequence key
NumStr(n) == <<"0", "1", "2", "3", "4", "5", "6", "7", "8", "9">>[n + 1]

\* /^\d|\W/.test(key) || !key, on the keys of the model
NeedsQuote(key) == key \in {"", "2d"}

comma == <<",", " ">>
\* the two quote characters
DQ == "\""
SQ == "'"

RECURSIVE represent(_, _)
\* represent(type, depth, typeFrom); typeFrom === type holds of Self alone
represent(type, depth) ==
    IF IsString(type) THEN <<type.name>>
    ELSE IF type = Self THEN <<"*circular*">>
    ELSE IF MAX_DEPTH < depth THEN <<"*...*">>
    ELSE IF IsArray(type) THEN
        <<"[">> \o join([i \in 1..Len(type.items) |-> represent(type.items[i], depth + 1)], comma)
                \o <<"]">>
    ELSE IF isLuaFunction(type) THEN
        LET params == join([i \in 1..Len(type.parameters) |->
                              <<type.parameters[i].name, ":", " ">>
                                 \o represent(type.parameters[i].type, depth + 1)], comma)
            vararg == IF Truthy(type.vararg)
                      THEN (IF params # <<>> THEN comma ELSE <<>>) \o <<"...", ":", " ">>
                               \o represent(type.vararg, depth + 1)
                      ELSE <<>>
            ret == IF HasOwnOr(type.return)
                   THEN <<"(">> \o represent(type.return, depth + 1) \o <<")">>
                   ELSE represent(type.return, depth + 1)
        IN <<"(">> \o params \o vararg \o <<")", " ", "-", ">", " ">> \o ret
    ELSE IF type.k = "table" THEN
        LET entries == join([i \in 1..Len(type.entries) |->
                               (IF NeedsQuote(type.entries[i].key)
                                THEN <<"[", DQ, type.entries[i].key, DQ, "]">>
                                ELSE <<type.entries[i].key>>)
                                 \o <<":", " ">> \o represent(type.entries[i].type, depth + 1)], comma)
            sequence == join([i \in 1..Len(type.sequence) |->
                               <<"[", NumStr(type.sequence[i].key), "]", ":", " ">>
                                 \o represent(type.sequence[i].type, depth + 1)], comma)
            true_ == IF Truthy(type.true)
                     THEN <<"[", "true", "]", ":", " ">> \o represent(type.true, depth + 1) ELSE <<>>
            false_ == IF Truthy(type.false)
                      THEN <<"[", "false", "]", ":", " ">> \o represent(type.false, depth + 1) ELSE <<>>
            typed == IF ~Truthy(type.typed) THEN <<>>
                     ELSE join(filterNonEmpty([i \in 1..Len(type.typed.keys) |->
                                 IF ~Truthy(type.typed.keys[i].type) THEN <<>>
                                 ELSE <<"[", ":", " ", type.typed.keys[i].key, "]", ":", " ">>
                                        \o represent(type.typed.keys[i].type, depth + 1)]), comma)
            full == join(filterNonEmpty(<<typed, true_, false_, entries, sequence>>), comma)
        IN IF full = <<>> THEN <<"{", "}">> ELSE <<"{", " ">> \o full \o <<" ", "}">>
    ELSE IF HasOwnOr(type) THEN
        represent(type.or[1], depth + 1) \o <<" ", "|", " ">> \o represent(type.or[2], depth + 1)
    ELSE <<"unknown-type">>

-----------------------------------------------------------------------------
(* typing.ts: parse *)

\* the typed-key object of a table, { [type]: LuaType }
Typed(keys) == [k |-> "typed", keys |-> keys]

\* obj[key] = type on a sequence of [key, type]: overwrite, or add last
setEntry(seq, key, type) ==
    IF \E i \in 1..Len(seq) : seq[i].key = key
    THEN [i \in 1..Len(seq) |-> IF seq[i].key = key THEN [key |-> key, type |-> type] ELSE seq[i]]
    ELSE Append(seq, [key |-> key, type |-> type])

\* obj[key] on a sequence of [key, type]
getEntry(seq, key) ==
    IF \E i \in 1..Len(seq) : seq[i].key = key
    THEN seq[CHOOSE i \in 1..Len(seq) : seq[i].key = key].type
    ELSE Undefined

\* a property name or a parameter name read from the notation
NameOf(tokens) == IF Len(tokens) = 0 THEN "" ELSE IF Len(tokens) = 1 THEN tokens[1] ELSE "<text>"

IsQuoted(expr) ==
    \/ charAt(expr, 0) = DQ /\ charAt(expr, Len(expr) - 1) = DQ
    \/ charAt(expr, 0) = SQ /\ charAt(expr, Len(expr) - 1) = SQ

RECURSIVE parse(_)
RECURSIVE parseTableFields(_, _, _, _)
RECURSIVE parseParameters(_, _, _, _)

\* the inner.forEach of the table branch: the LuaTable, or the throw
parseTableFields(inner, i, tableType, keyCounting) ==
    IF i > Len(inner) THEN tableType
    ELSE LET it == inner[i]
             kt == splitCarefully(it, ":", 1)
         IN IF ~kt.ok THEN Thrown("SyntaxError")
            ELSE IF Len(kt.list) >= 2 /\ kt.list[2] # <<>> THEN
                LET key == trim(kt.list[1])
                    type == parse(kt.list[2])
                IN IF IsThrown(type) THEN type
                   ELSE IF charAt(key, 0) = "[" /\ charAt(key, Len(key) - 1) = "]" THEN
                       LET expr == trim(substr(key, 1, Len(key) - 2)) IN
                       IF expr = <<"true">>
                       THEN parseTableFields(inner, i + 1, [tableType EXCEPT !.true = type], keyCounting)
                       ELSE IF expr = <<"false">>
                       THEN parseTableFields(inner, i + 1, [tableType EXCEPT !.false = type], keyCounting)
                       ELSE IF IsQuoted(expr)
                       THEN parseTableFields(inner, i + 1,
                                [tableType EXCEPT !.entries =
                                    setEntry(@, NameOf(substr(expr, 1, Len(expr) - 2)), type)],
                                keyCounting)
                       ELSE LET found == indexOf(expr, ":") IN
                            IF found < 0 THEN Thrown("SyntaxError")
                            ELSE LET keyType == parse(substrFrom(it, found + 1)) IN
                                 IF IsThrown(keyType) THEN keyType
                                 ELSE IF keyType \in {TString, TNumber, TBoolean}
                                 THEN parseTableFields(inner, i + 1,
                                          [tableType EXCEPT !.typed =
                                              Typed(setEntry(IF Truthy(@) THEN @.keys ELSE <<>>,
                                                             keyType.name, type))],
                                          keyCounting)
                                 ELSE Thrown("TypeError")
                   ELSE parseTableFields(inner, i + 1,
                            [tableType EXCEPT !.entries = setEntry(@, NameOf(key), type)], keyCounting)
            ELSE LET type == parse(it) IN
                 IF IsThrown(type) THEN type
                 ELSE parseTableFields(inner, i + 1,
                          [tableType EXCEPT !.sequence = setEntry(@, keyCounting, type)],
                          keyCounting + 1)

\* the params.flatMap of the function branch: [parameters, vararg], or the throw
parseParameters(params, i, parameters, varargType) ==
    IF i > Len(params) THEN [k |-> "params", parameters |-> parameters, vararg |-> varargType]
    ELSE LET it == params[i]
             co == indexOf(it, ":")
             name == trim(substring(it, 0, co))
             type == parse(substrFrom(it, co + 1))
         IN IF IsThrown(type) THEN type
            ELSE IF name = <<"...">> THEN parseParameters(params, i + 1, parameters, type)
            ELSE parseParameters(params, i + 1,
                                 Append(parameters, [name |-> NameOf(name), type |-> type]),
                                 varargType)

parseFunction(repr_) ==
    IF indexOfArrow(repr_) > -1 THEN
        LET d == delimitSubstring(repr_, "(", ")") IN
        IF ~d.ok THEN Thrown("SyntaxError")
        ELSE LET params == splitCarefully(substring(repr_, d.start, d.end), ",", 0) IN
             IF ~params.ok THEN Thrown("SyntaxError")
             ELSE LET arrow == indexOfArrow(substrFrom(repr_, d.end))
                      rets == parse(substrFrom(repr_, d.end + arrow + 2))
                  IN IF IsThrown(rets) THEN rets
                     ELSE LET ps == IF params.list[1] = <<>>
                                    THEN [k |-> "params", parameters |-> <<>>, vararg |-> Undefined]
                                    ELSE parseParameters(params.list, 1, <<>>, Undefined)
                          IN IF IsThrown(ps) THEN ps
                             ELSE Function(ps.parameters, ps.vararg,
                                           IF IsArray(rets) /\ Len(rets.items) = 1
                                           THEN rets.items[1] ELSE rets)
    ELSE Thrown("TypeError")

parseArray(repr_) ==
    IF charAt(repr_, 0) = "[" /\ charAt(repr_, Len(repr_) - 1) = "]" THEN
        LET inner == splitCarefully(substr(repr_, 1, Len(repr_) - 2), ",", 0) IN
        IF ~inner.ok THEN Thrown("SyntaxError")
        ELSE LET items == [i \in 1..Len(inner.list) |-> parse(inner.list[i])] IN
             IF FirstThrown(items) # Null THEN FirstThrown(items) ELSE Tuple(items)
    ELSE parseFunction(repr_)

parseTable(repr_) ==
    IF charAt(repr_, 0) = "{" /\ charAt(repr_, Len(repr_) - 1) = "}" THEN
        LET inner == splitCarefully(substr(repr_, 1, Len(repr_) - 2), ",", 0) IN
        IF ~inner.ok THEN Thrown("SyntaxError")
        ELSE parseTableFields(inner.list, 1, EmptyTable, 1)
    ELSE parseArray(repr_)

parseUnion(repr_) ==
    IF includes(repr_, "|") THEN
        LET list == splitCarefully(repr_, "|", 0) IN
        IF ~list.ok THEN Thrown("SyntaxError")
        ELSE IF 1 < Len(list.list) THEN
            LET members == [i \in 1..Len(list.list) |-> parse(list.list[i])] IN
            IF FirstThrown(members) # Null THEN FirstThrown(members) ELSE buildBinaryTree(members)
        ELSE parseTable(repr_)
    ELSE parseTable(repr_)

\* parse(repr): the LuaType, or the SyntaxError or TypeError thrown
parse(repr0) ==
    LET repr_ == trim(repr0) IN
    IF Len(repr_) = 1 /\ repr_[1] \in {"nil", "number", "boolean", "string"} THEN Atom(repr_[1])
    ELSE IF charAt(repr_, 0) = "(" /\ charAt(repr_, Len(repr_) - 1) = ")" THEN
        LET d == delimitSubstring(repr_, "(", ")") IN
        IF ~d.ok THEN Thrown("SyntaxError")
        ELSE IF Len(repr_) - 1 = d.end THEN parse(substring(repr_, d.start, d.end))
        ELSE parseUnion(repr_)
    ELSE parseUnion(repr_)

-----------------------------------------------------------------------------
(* typing.ts: equivalent.  The result is "true", "false", or "TypeError"   *)
(* when Object.prototype.hasOwnProperty.call is reached with undefined or  *)
(* null.                                                                   *)

\* typeA === typeB: primitives by value; two compound arguments are two objects
SameRef(typeA, typeB) == typeA = typeB /\ typeA.k \in {"atom", "undefined", "null"}

\* the first result that is not "true", or "true"
FirstNotTrue(results) ==
    LET hits == {i \in 1..Len(results) : results[i] # "true"}
    IN IF hits = {} THEN "true" ELSE results[CHOOSE i \in hits : \A j \in hits : i <= j]

RECURSIVE equivalent(_, _, _)

\* the union branch; the members of a flattened union are never undefined or null
equivalentUnions(unionTypeA, unionTypeB, depth) ==
    LET flattenA == flattenBinaryTree(unionTypeA)
        flattenB == flattenBinaryTree(unionTypeB)
        shortest == IF Len(flattenA) < Len(flattenB) THEN flattenA ELSE flattenB
        longest == IF Len(flattenA) < Len(flattenB) THEN flattenB ELSE flattenA
        \* shortest.findIndex(e => equivalent(e, it, depth+1)), from 1, 0 for -1
        findIndex(it) ==
            LET hits == {j \in 1..Len(shortest) : equivalent(shortest[j], it, depth + 1) = "true"}
            IN IF hits = {} THEN 0 ELSE CHOOSE j \in hits : \A i \in hits : j <= i
        visited == {findIndex(longest[j]) : j \in 1..Len(longest)}
    IN IF \E j \in 1..Len(longest) : findIndex(longest[j]) = 0 THEN "false"
       ELSE IF \E j \in 1..Len(shortest) :
                  /\ j \notin visited
                  /\ ~\E i \in 1..Len(longest) : equivalent(longest[i], shortest[j], depth + 1) = "true"
       THEN "false"
       ELSE "true"

equivalent(typeA, typeB, depth) ==
    IF SameRef(typeA, typeB) THEN "true"
    ELSE IF IsString(typeA) \/ IsString(typeB) THEN "false"
    ELSE IF MAX_DEPTH < depth THEN "false"
    ELSE IF IsArray(typeA) /\ IsArray(typeB) THEN
        IF Len(typeA.items) # Len(typeB.items) THEN "false"
        ELSE FirstNotTrue([i \in 1..Len(typeA.items) |->
                              equivalent(typeA.items[i], typeB.items[i], depth + 1)])
    ELSE IF IsArray(typeA) \/ IsArray(typeB) THEN "false"
    ELSE IF isLuaFunction(typeA) /\ isLuaFunction(typeB) THEN
        IF Len(typeA.parameters) # Len(typeB.parameters) THEN "false"
        ELSE LET params == FirstNotTrue([i \in 1..Len(typeA.parameters) |->
                              equivalent(ParamType(typeA, i), ParamType(typeB, i), depth + 1)])
             IN IF params # "true" THEN params
                ELSE equivalent(typeA.return, typeB.return, depth + 1)
    ELSE IF isLuaFunction(typeA) \/ isLuaFunction(typeB) THEN "false"
    ELSE IF isLuaTable(typeA) /\ isLuaTable(typeB) THEN
        IF Len(typeA.entries) # Len(typeB.entries) THEN "false"
        ELSE FirstNotTrue([i \in 1..Len(typeA.entries) |->
                LET it == getEntry(typeB.entries, typeA.entries[i].key) IN
                IF ~Truthy(it) THEN "false" ELSE equivalent(typeA.entries[i].type, it, depth + 1)])
    ELSE IF isLuaTable(typeA) \/ isLuaTable(typeB) THEN "false"
    ELSE IF ~Truthy(typeA) \/ ~Truthy(typeB) THEN "TypeError"
    ELSE IF HasOwnOr(typeA) /\ HasOwnOr(typeB) THEN equivalentUnions(typeA, typeB, depth)
    ELSE "false"

-----------------------------------------------------------------------------
(* typing.ts: simplify.  The result is a LuaType, null (buildBinaryTree of *)
(* an empty list), or the TypeError thrown.                                *)

RECURSIVE simplify(_, _)

\* type.x && simplify(type.x, depth+1, type, r)
simplifyIf(x, depth) == IF Truthy(x) THEN simplify(x, depth + 1) ELSE x

\* [key, simplify(type)] over a sequence of [key, type]
simplifyEntries(seq, depth) ==
    [i \in 1..Len(seq) |-> [key |-> seq[i].key, type |-> simplify(seq[i].type, depth + 1)]]

EntryThrown(seq) == \E i \in 1..Len(seq) : IsThrown(seq[i].type)

\* delete sequence[key]
deleteEntry(seq, key) ==
    LET keep == {i \in 1..Len(seq) : seq[i].key # key}
        RECURSIVE pick(_)
        pick(i) == IF i > Len(seq) THEN <<>>
                   ELSE (IF i \in keep THEN <<seq[i]>> ELSE <<>>) \o pick(i + 1)
    IN pick(1)

RECURSIVE foldSequence(_, _, _)
\* while (equivalent(sequence[keyCounting], typedNumber)) delete sequence[keyCounting++];
\* the sequence left, or the throw of equivalent
foldSequence(sequence, keyCounting, typedNumber) ==
    LET e == equivalent(getEntry(sequence, keyCounting), typedNumber, 1) IN
    IF e = "TypeError" THEN Thrown("TypeError")
    ELSE IF e = "true" THEN foldSequence(deleteEntry(sequence, keyCounting), keyCounting + 1, typedNumber)
    ELSE [k |-> "sequence", sequence |-> sequence]

simplifyTable(type, depth) ==
    LET sequence == simplifyEntries(type.sequence, depth)
        typedNumber0 == IF Truthy(type.typed)
                        THEN simplifyIf(getEntry(type.typed.keys, "number"), depth)
                        ELSE Undefined
        first == getEntry(sequence, 1)
        firstEq == IF Truthy(first) /\ Truthy(typedNumber0)
                   THEN equivalent(first, typedNumber0, 1) ELSE "true"
        doFold == Truthy(first) /\ firstEq = "true"
        typedNumber == IF doFold THEN first ELSE typedNumber0
        folded == IF doFold THEN foldSequence(deleteEntry(sequence, 1), 2, typedNumber)
                  ELSE [k |-> "sequence", sequence |-> sequence]
        entries == simplifyEntries(type.entries, depth)
        true_ == simplifyIf(type.true, depth)
        false_ == simplifyIf(type.false, depth)
        typedString == IF Truthy(type.typed)
                       THEN simplifyIf(getEntry(type.typed.keys, "string"), depth) ELSE Undefined
        typedBoolean == IF Truthy(type.typed)
                        THEN simplifyIf(getEntry(type.typed.keys, "boolean"), depth) ELSE Undefined
    IN IF EntryThrown(sequence) \/ IsThrown(typedNumber0) \/ firstEq = "TypeError"
          \/ IsThrown(folded) \/ EntryThrown(entries) \/ IsThrown(true_) \/ IsThrown(false_)
          \/ IsThrown(typedString) \/ IsThrown(typedBoolean)
       THEN Thrown("TypeError")
       ELSE Table(entries, folded.sequence, true_, false_,
                  IF Truthy(type.typed) \/ Truthy(typedNumber)
                  THEN Typed(<<[key |-> "string", type |-> typedString],
                               [key |-> "number", type |-> typedNumber],
                               [key |-> "boolean", type |-> typedBoolean]>>)
                  ELSE typedNumber)

\* the loop of the union branch: every arm ends in `break`, so it handles flat[0] alone
simplifyUnionLoop(flat) ==
    LET it == flat[1] IN
    IF IsString(it) THEN <<it>>
    ELSE IF isLuaFunction(it) THEN <<>>
    ELSE IF isLuaTable(it) THEN <<it>>
    ELSE <<Thrown("TypeError")>>

simplifyUnion(type, depth) ==
    LET flat0 == flattenBinaryTree(type)
        flat == [i \in 1..Len(flat0) |-> simplify(flat0[i], depth + 1)]
    IN IF FirstThrown(flat) # Null THEN FirstThrown(flat)
       ELSE LET r == simplifyUnionLoop(flat) IN
            IF FirstThrown(r) # Null THEN FirstThrown(r) ELSE buildBinaryTree(r)

simplifyFunction(type, depth) ==
    LET \* `type` is shadowed in the map: typeFrom === type, so typeBuilding is returned
        parameters == [i \in 1..Len(type.parameters) |->
                          [name |-> type.parameters[i].name,
                           type |-> IF IsString(type.parameters[i].type)
                                    THEN type.parameters[i].type ELSE Self]]
        vararg == simplifyIf(type.vararg, depth)
        return == simplify(type.return, depth + 1)
    IN IF IsThrown(vararg) THEN vararg
       ELSE IF IsThrown(return) THEN return
       ELSE Function(parameters, vararg, return)

simplify(type, depth) ==
    IF IsString(type) THEN type
    ELSE IF type = Self THEN type
    ELSE IF MAX_DEPTH < depth THEN type
    ELSE IF ~Truthy(type) THEN Thrown("TypeError")
    ELSE IF IsArray(type) THEN
        LET r == [i \in 1..Len(type.items) |-> simplify(type.items[i], depth + 1)] IN
        IF FirstThrown(r) # Null THEN FirstThrown(r) ELSE Tuple(r)
    ELSE IF isLuaFunction(type) THEN simplifyFunction(type, depth)
    ELSE IF type.k = "table" THEN simplifyTable(type, depth)
    ELSE IF HasOwnOr(type) THEN simplifyUnion(type, depth)
    ELSE Thrown("TypeError")

-----------------------------------------------------------------------------
(* typing.ts on type graphs.  A LuaType object that can be reached from    *)
(* itself is a node of `h`, a sequence of objects, and Ref(i) is the       *)
(* reference to h[i]: two references are === when they are the same index. *)
(* Each operator returns its result (out) with the largest `depth` a call  *)
(* of the recursion was entered with (deep).                               *)

Ref(i) == [k |-> "ref", at |-> i]
IsRef(type) == type.k = "ref"
\* the object behind a value
Deref(h, type) == IF IsRef(type) THEN h[type.at] ELSE type

DepthCutLate(depth) == MAX_DEPTH + 1 < depth
\* if (MAX_DEPTH < depth) return ...
DepthCut(depth) == MAX_DEPTH < depth

\* the largest depth among a call's own and its callees'
MaxDeep(depth, results) ==
    LET all == {depth} \cup {results[i].deep : i \in 1..Len(results)}
    IN CHOOSE d \in all : \A e \in all : e <= d

\* x ? [f(x)] : []
Optional(x, result) == IF Truthy(x) THEN <<result>> ELSE <<>>

\* the `out` of each result
outsOf(results) == [i \in 1..Len(results) |-> results[i].out]

\* the array branch over the results of its calls
representArrayOf(depth, items) ==
    [deep |-> MaxDeep(depth, items),
     out |-> <<"[">> \o join(outsOf(items), comma) \o <<"]">>]

\* the function branch over the results of its calls
representFunctionOf(h, node, depth, ps, va, ret) ==
    LET params == join([i \in 1..Len(ps) |->
                          <<node.parameters[i].name, ":", " ">> \o ps[i].out], comma)
        vararg == IF va # <<>>
                  THEN (IF params # <<>> THEN comma ELSE <<>>) \o <<"...", ":", " ">> \o va[1].out
                  ELSE <<>>
        retOut == IF HasOwnOr(Deref(h, node.return))
                  THEN <<"(">> \o ret.out \o <<")">> ELSE ret.out
    IN [deep |-> MaxDeep(depth, ps \o va \o <<ret>>),
        out |-> <<"(">> \o params \o vararg \o <<")", " ", "-", ">", " ">> \o retOut]

\* the table branch over the results of its calls
representTableOf(node, depth, es, ss, tr, fa, ty) ==
    LET typed == join(filterNonEmpty(outsOf(ty)), comma)
        entries == join([i \in 1..Len(es) |->
                           (IF NeedsQuote(node.entries[i].key)
                            THEN <<"[", DQ, node.entries[i].key, DQ, "]">>
                            ELSE <<node.entries[i].key>>) \o <<":", " ">> \o es[i].out], comma)
        sequence == join([i \in 1..Len(ss) |->
                           <<"[", NumStr(node.sequence[i].key), "]", ":", " ">> \o ss[i].out], comma)
        true_ == IF tr # <<>> THEN <<"[", "true", "]", ":", " ">> \o tr[1].out ELSE <<>>
        false_ == IF fa # <<>> THEN <<"[", "false", "]", ":", " ">> \o fa[1].out ELSE <<>>
        full == join(filterNonEmpty(<<typed, true_, false_, entries, sequence>>), comma)
    IN [deep |-> MaxDeep(depth, es \o ss \o tr \o fa \o ty),
        out |-> IF full = <<>> THEN <<"{", "}">> ELSE <<"{", " ">> \o full \o <<" ", "}">>]

\* the union branch over the results of its calls
representUnionOf(depth, reprA, reprB) ==
    [deep |-> MaxDeep(depth, <<reprA, reprB>>),
     out |-> reprA.out \o <<" ", "|", " ">> \o reprB.out]

RECURSIVE representGraph(_, _, _, _)

\* represent on a field of a table under typed
representTyped(h, type, depth, entry) ==
    IF ~Truthy(entry.type) THEN [out |-> <<>>, deep |-> depth]
    ELSE LET r == representGraph(h, entry.type, depth + 1, type) IN
         [out |-> <<"[", ":", " ", entry.key, "]", ":", " ">> \o r.out, deep |-> r.deep]

\* represent(type, depth, typeFrom) on a value of the graph h; the tests of
\* the source are made in its order, each arm under the failure of the ones
\* before it
representGraph(h, type, depth, typeFrom) ==
    CASE IsString(type) -> [out |-> <<type.name>>, deep |-> depth]
      [] ~IsString(type) /\ typeFrom = type -> [out |-> <<"*circular*">>, deep |-> depth]
      [] ~IsString(type) /\ typeFrom # type /\ DepthCut(depth) -> [out |-> <<"*...*">>, deep |-> depth]
      [] OTHER ->
         CASE IsArray(h[type.at]) ->
                representArrayOf(depth,
                    [i \in 1..Len(h[type.at].items) |->
                        representGraph(h, h[type.at].items[i], depth + 1, type)])
           [] isLuaFunction(h[type.at]) ->
                representFunctionOf(h, h[type.at], depth,
                    [i \in 1..Len(h[type.at].parameters) |->
                        representGraph(h, h[type.at].parameters[i].type, depth + 1, type)],
                    Optional(h[type.at].vararg, representGraph(h, h[type.at].vararg, depth + 1, type)),
                    representGraph(h, h[type.at].return, depth + 1, type))
           [] h[type.at].k = "table" ->
                representTableOf(h[type.at], depth,
                    [i \in 1..Len(h[type.at].entries) |->
                        representGraph(h, h[type.at].entries[i].type, depth + 1, type)],
                    [i \in 1..Len(h[type.at].sequence) |->
                        representGraph(h, h[type.at].sequence[i].type, depth + 1, type)],
                    Optional(h[type.at].true, representGraph(h, h[type.at].true, depth + 1, type)),
                    Optional(h[type.at].false, representGraph(h, h[type.at].false, depth + 1, type)),
                    IF ~Truthy(h[type.at].typed) THEN <<>>
                    ELSE [i \in 1..Len(h[type.at].typed.keys) |->
                            representTyped(h, type, depth, h[type.at].typed.keys[i])])
           [] HasOwnOr(h[type.at]) ->
                representUnionOf(depth,
                    representGraph(h, h[type.at].or[1], depth + 1, type),
                    representGraph(h, h[type.at].or[2], depth + 1, type))
           [] OTHER -> [out |-> <<"unknown-type">>, deep |-> depth]

RECURSIVE flattenGraph(_, _)
\* flattenBinaryTree(root, 'or') where the members may be references
flattenGraph(h, root) ==
    IF HasOwnOr(Deref(h, root))
    THEN LET a == flattenGraph(h, Deref(h, root).or[1])
             b == flattenGraph(h, Deref(h, root).or[2])
         IN (IF a = Undefined THEN <<Deref(h, root).or[1]>> ELSE a)
            \o (IF b = Undefined THEN <<Deref(h, root).or[2]>> ELSE b)
    ELSE Undefined

\* the calls a loop makes before it leaves on the first result that is
\* (stopAt TRUE) or is not (stopAt FALSE) "true"
Upto(results, stopAt) ==
    IF \A i \in 1..Len(results) : (results[i].out = "true") # stopAt THEN results
    ELSE SubSeq(results, 1, CHOOSE i \in 1..Len(results) :
                               /\ (results[i].out = "true") = stopAt
                               /\ \A j \in 1..(i - 1) : (results[j].out = "true") # stopAt)

\* what such a loop leaves with: the result it stopped on
Verdict(made, otherwise) == IF made = <<>> THEN otherwise ELSE made[Len(made)].out

RECURSIVE Concat(_)
Concat(lists) == IF Len(lists) = 0 THEN <<>> ELSE lists[1] \o Concat(Tail(lists))

\* a table that is no array, and an array, a function or a table
IsPlainTable(type) == isLuaTable(type) /\ ~IsArray(type)

IsObject(type) == IsArray(type) \/ isLuaFunction(type) \/ isLuaTable(type)

RECURSIVE equivalentGraph(_, _, _, _)

\* the two loops of the union branch over the results of the calls they can
\* make: first[j][i] is equivalent(shortest[i], longest[j], depth+1) and
\* second[j][i] is equivalent(longest[i], shortest[j], depth+1)
equivalentUnionsLoops(first, second, depth) ==
    LET \* shortest.findIndex(e => equivalent(e, it, depth+1)): the calls made
        finds == [j \in 1..Len(first) |-> Upto(first[j], TRUE)]
        found(j) == IF Verdict(finds[j], "false") = "true" THEN Len(finds[j]) ELSE 0
        missing == {j \in 1..Len(first) : found(j) = 0}
        firstMissing == IF missing = {} THEN Len(first)
                        ELSE CHOOSE j \in missing : \A i \in missing : j <= i
        visited == {found(j) : j \in 1..Len(first)}
        \* longest.find(e => equivalent(e, it, depth+1)) for the unvisited ones
        seeks == [j \in 1..Len(second) |-> IF j \in visited THEN <<>> ELSE Upto(second[j], TRUE)]
        lost == {j \in 1..Len(second) : j \notin visited /\ Verdict(seeks[j], "false") # "true"}
        firstLost == IF lost = {} THEN Len(second) ELSE CHOOSE j \in lost : \A i \in lost : j <= i
    IN IF missing # {}
       THEN [out |-> "false", deep |-> MaxDeep(depth, Concat(SubSeq(finds, 1, firstMissing)))]
       ELSE [out |-> IF lost # {} THEN "false" ELSE "true",
             deep |-> MaxDeep(depth, Concat(finds) \o Concat(SubSeq(seeks, 1, firstLost)))]

\* the calls of the union branch: each member of `outer` with each of `inner`
equivalentUnionsCalls(h, shortest, longest, depth) ==
    [loop \in 1..2 |->
        [j \in 1..Len(IF loop = 1 THEN longest ELSE shortest) |->
            [i \in 1..Len(IF loop = 1 THEN shortest ELSE longest) |->
                equivalentGraph(h, (IF loop = 1 THEN shortest ELSE longest)[i],
                                   (IF loop = 1 THEN longest ELSE shortest)[j], depth + 1)]]]

\* [shortest, longest] = flattenA.length < flattenB.length ? [flattenA, flattenB] : [flattenB, flattenA]
ShortestFirst(flattenA, flattenB) ==
    IF Len(flattenA) < Len(flattenB) THEN <<flattenA, flattenB>> ELSE <<flattenB, flattenA>>

equivalentUnionsOf(results, depth) == equivalentUnionsLoops(results[1], results[2], depth)

equivalentUnionsSorted(h, sorted, depth) ==
    equivalentUnionsOf(equivalentUnionsCalls(h, sorted[1], sorted[2], depth), depth)

\* the union branch
equivalentUnionsGraph(h, typeA, typeB, depth) ==
    equivalentUnionsSorted(h, ShortestFirst(flattenGraph(h, typeA), flattenGraph(h, typeB)), depth)

\* what a loop leaves with after the calls `made`: the result it stopped on
leaveGraph(depth, made) ==
    IF Len(made) = 0 THEN [out |-> "true", deep |-> depth]
    ELSE [out |-> made[Len(made)].out, deep |-> MaxDeep(depth, made)]

\* a loop over the calls `results` that returns on the first one that is not
\* "true"
everyGraph(depth, results) ==
    IF Len(results) = 0 THEN [out |-> "true", deep |-> depth]
    ELSE leaveGraph(depth, Upto(results, FALSE))

\* the function branch after the loop over the parameters
equivalentFunctionOf(h, a, b, depth, made) ==
    IF Verdict(made, "true") # "true" THEN leaveGraph(depth, made)
    ELSE leaveGraph(depth, made \o <<equivalentGraph(h, a.return, b.return, depth + 1)>>)

\* equivalent(typeA, typeB, depth) on values of the graph h; the tests of
\* the source are made in its order, each arm under the failure of the ones
\* before it
equivalentGraph(h, typeA, typeB, depth) ==
    CASE typeA = typeB -> [out |-> "true", deep |-> depth]
      [] typeA # typeB /\ (IsString(typeA) \/ IsString(typeB)) -> [out |-> "false", deep |-> depth]
      [] typeA # typeB /\ ~IsString(typeA) /\ ~IsString(typeB) /\ DepthCut(depth) ->
            [out |-> "false", deep |-> depth]
      [] OTHER ->
         LET a == Deref(h, typeA)
             b == Deref(h, typeB)
             no == [out |-> "false", deep |-> depth]
         IN
         CASE IsArray(a) /\ IsArray(b) /\ Len(a.items) = Len(b.items) ->
                everyGraph(depth, [i \in 1..Len(a.items) |->
                                     equivalentGraph(h, a.items[i], b.items[i], depth + 1)])
           [] isLuaFunction(a) /\ isLuaFunction(b) /\ Len(a.parameters) = Len(b.parameters) ->
                equivalentFunctionOf(h, a, b, depth,
                    Upto([i \in 1..Len(a.parameters) |->
                            equivalentGraph(h, a.parameters[i].type, b.parameters[i].type,
                                            depth + 1)], FALSE))
           [] IsPlainTable(a) /\ IsPlainTable(b) /\ Len(a.entries) = Len(b.entries) ->
                everyGraph(depth, [i \in 1..Len(a.entries) |->
                                     LET it == getEntry(b.entries, a.entries[i].key) IN
                                     IF ~Truthy(it) THEN no
                                     ELSE equivalentGraph(h, a.entries[i].type, it, depth + 1)])
           [] HasOwnOr(a) /\ HasOwnOr(b) -> equivalentUnionsGraph(h, typeA, typeB, depth)
           [] (~Truthy(a) \/ ~Truthy(b)) /\ ~IsObject(a) /\ ~IsObject(b) ->
                [out |-> "TypeError", deep |-> depth]
           [] OTHER -> no

RECURSIVE simplifyGraph(_, _, _, _, _)

RECURSIVE simplifyEach(_, _, _, _, _, _, _)

\* the loop goes on from the result r of one call; a call that throws ends it
simplifyNext(r, types, depth, typeFrom, typeBuilding, guarded, done) ==
    IF IsThrown(r.out) THEN [heap |-> r.heap, results |-> Append(done, r), threw |-> TRUE]
    ELSE simplifyEach(r.heap, types, depth, typeFrom, typeBuilding, guarded, Append(done, r))

\* simplify over a list of values, left to right, the objects it builds
\* added to the heap; `guarded` is the `x && simplify(x, ...)` of an
\* optional field, which makes no call on a missing one
simplifyEach(h, types, depth, typeFrom, typeBuilding, guarded, done) ==
    CASE Len(types) = 0 -> [heap |-> h, results |-> done, threw |-> FALSE]
      [] Len(types) > 0 /\ guarded /\ ~Truthy(types[1]) ->
            simplifyEach(h, Tail(types), depth, typeFrom, typeBuilding, guarded,
                         Append(done, [heap |-> h, out |-> types[1], deep |-> 0]))
      [] OTHER ->
            simplifyNext(simplifyGraph(h, types[1], depth, typeFrom, typeBuilding),
                         Tail(types), depth, typeFrom, typeBuilding, guarded, done)

Outs(results) == [i \in 1..Len(results) |-> results[i].out]

RECURSIVE foldGraph(_, _, _, _, _)
\* while (equivalent(sequence[keyCounting], typedNumber)) delete sequence[keyCounting++];
foldGraph(h, sequence, keyCounting, typedNumber, made) ==
    LET e == equivalentGraph(h, getEntry(sequence, keyCounting), typedNumber, 1) IN
    IF e.out = "true"
    THEN foldGraph(h, deleteEntry(sequence, keyCounting), keyCounting + 1, typedNumber, Append(made, e))
    ELSE [sequence |-> sequence, made |-> Append(made, e), threw |-> e.out = "TypeError"]

\* sequence[1] && (!typedNumber || equivalent(sequence[1], typedNumber)) and
\* the loop under it: the calls made, the sequence and the typedNumber left
foldTable(h, sequence, typedNumber) ==
    LET first == getEntry(sequence, 1)
        firstEq == IF Truthy(first) /\ Truthy(typedNumber)
                   THEN <<equivalentGraph(h, first, typedNumber, 1)>> ELSE <<>>
        fold == foldGraph(h, deleteEntry(sequence, 1), 2, first, <<>>)
    IN IF Verdict(firstEq, "true") = "TypeError"
       THEN [heap |-> h, results |-> firstEq, threw |-> TRUE,
             sequence |-> sequence, typedNumber |-> typedNumber]
       ELSE IF Truthy(first) /\ Verdict(firstEq, "true") = "true"
       THEN [heap |-> h, results |-> firstEq \o fold.made, threw |-> fold.threw,
             sequence |-> fold.sequence, typedNumber |-> first]
       ELSE [heap |-> h, results |-> firstEq, threw |-> FALSE,
             sequence |-> sequence, typedNumber |-> typedNumber]

RECURSIVE simplifyTableFrom(_, _, _, _, _, _)
\* the table branch from one of its statements on: `made` holds the calls of
\* the statement `phase`, and st the locals before it: r (the object being
\* built, empty until the end), sequence, typedNumber, entries, and the calls
\* made so far
simplifyTableFrom(node, type, depth, phase, st, made) ==
    LET typedOf(key) == IF Truthy(node.typed) THEN getEntry(node.typed.keys, key) ELSE Undefined
        sofar == st.sofar \o made.results
    IN
    CASE made.threw ->
            [heap |-> made.heap, out |-> Thrown("TypeError"), deep |-> MaxDeep(depth, sofar)]
      [] ~made.threw /\ phase = "sequence" ->
            simplifyTableFrom(node, type, depth, "typed.number",
                [st EXCEPT !.sofar = sofar,
                           !.sequence = [i \in 1..Len(node.sequence) |->
                                           Entry(node.sequence[i].key, made.results[i].out)]],
                simplifyEach(made.heap, <<typedOf("number")>>, depth + 1, type, st.r, TRUE, <<>>))
      [] ~made.threw /\ phase = "typed.number" ->
            simplifyTableFrom(node, type, depth, "fold",
                [st EXCEPT !.sofar = sofar],
                foldTable(made.heap, st.sequence, made.results[1].out))
      [] ~made.threw /\ phase = "fold" ->
            simplifyTableFrom(node, type, depth, "entries",
                [st EXCEPT !.sofar = sofar, !.sequence = made.sequence,
                           !.typedNumber = made.typedNumber],
                simplifyEach(made.heap, [i \in 1..Len(node.entries) |-> node.entries[i].type],
                             depth + 1, type, st.r, FALSE, <<>>))
      [] ~made.threw /\ phase = "entries" ->
            simplifyTableFrom(node, type, depth, "optional",
                [st EXCEPT !.sofar = sofar,
                           !.entries = [i \in 1..Len(node.entries) |->
                                          Entry(node.entries[i].key, made.results[i].out)]],
                simplifyEach(made.heap,
                             <<node.true, node.false, typedOf("string"), typedOf("boolean")>>,
                             depth + 1, type, st.r, TRUE, <<>>))
      [] ~made.threw /\ phase = "optional" ->
            [heap |-> [made.heap EXCEPT ![st.r.at] =
                          Table(st.entries, st.sequence, made.results[1].out, made.results[2].out,
                                IF Truthy(node.typed) \/ Truthy(st.typedNumber)
                                THEN Typed(<<Entry("string", made.results[3].out),
                                             Entry("number", st.typedNumber),
                                             Entry("boolean", made.results[4].out)>>)
                                ELSE st.typedNumber)],
             out |-> st.r, deep |-> MaxDeep(depth, sofar)]

\* the table branch
simplifyTableGraph(h, type, depth) ==
    simplifyTableFrom(h[type.at], type, depth, "sequence",
        [r |-> Ref(Len(h) + 1), sequence |-> <<>>, typedNumber |-> Undefined, entries |-> <<>>,
         sofar |-> <<>>],
        simplifyEach(Append(h, EmptyTable),
                     [i \in 1..Len(h[type.at].sequence) |-> h[type.at].sequence[i].type],
                     depth + 1, type, Ref(Len(h) + 1), FALSE, <<>>))

\* the union branch after its calls: every arm of the loop ends in `break`,
\* so flat[0] alone is looked at, and no union object is built
simplifyUnionOf(flat, depth) ==
    LET it == flat.results[1].out
        r == IF IsString(it) THEN <<it>>
             ELSE IF isLuaFunction(Deref(flat.heap, it)) THEN <<>>
             ELSE IF isLuaTable(Deref(flat.heap, it)) THEN <<it>>
             ELSE <<Thrown("TypeError")>>
    IN [heap |-> flat.heap,
        out |-> IF flat.threw THEN Thrown("TypeError")
                ELSE IF r = <<>> THEN Null ELSE r[1],
        deep |-> MaxDeep(depth, flat.results)]

\* the union branch
simplifyUnionGraph(h, type, depth) ==
    simplifyUnionOf(simplifyEach(h, flattenGraph(h, type), depth + 1, type, type, FALSE, <<>>), depth)

\* in the map over the parameters `type` is the parameter's own type, so
\* typeFrom === type and typeBuilding is returned
simplifyParameters(h, type, depth) ==
    [i \in 1..Len(h[type.at].parameters) |->
        [heap |-> h, deep |-> depth + 1,
         out |-> IF IsString(h[type.at].parameters[i].type)
                 THEN h[type.at].parameters[i].type ELSE Ref(Len(h) + 1)]]

\* the function branch after the call on the return
simplifyFunctionOf(h, type, depth, va, ret) ==
    IF ret.threw
    THEN [heap |-> ret.heap, out |-> Thrown("TypeError"),
          deep |-> MaxDeep(depth, simplifyParameters(h, type, depth) \o va.results \o ret.results)]
    ELSE [heap |-> [ret.heap EXCEPT ![Len(h) + 1] =
                      Function([i \in 1..Len(h[type.at].parameters) |->
                                  Param(h[type.at].parameters[i].name,
                                        simplifyParameters(h, type, depth)[i].out)],
                               va.results[1].out, ret.results[1].out)],
          out |-> Ref(Len(h) + 1),
          deep |-> MaxDeep(depth, simplifyParameters(h, type, depth) \o va.results \o ret.results)]

\* the function branch after the call on the vararg
simplifyFunctionFrom(h, type, depth, va) ==
    IF va.threw
    THEN [heap |-> va.heap, out |-> Thrown("TypeError"),
          deep |-> MaxDeep(depth, simplifyParameters(h, type, depth) \o va.results)]
    ELSE simplifyFunctionOf(h, type, depth, va,
            simplifyEach(va.heap, <<h[type.at].return>>, depth + 1, type, Ref(Len(h) + 1), FALSE, <<>>))

\* the function branch
simplifyFunctionGraph(h, type, depth) ==
    simplifyFunctionFrom(h, type, depth,
        simplifyEach(Append(h, Function(<<>>, Undefined, TNil)), <<h[type.at].vararg>>,
                     depth + 1, type, Ref(Len(h) + 1), TRUE, <<>>))

\* the array branch after its calls
simplifyArrayOf(h, depth, items) ==
    IF items.threw
    THEN [heap |-> items.heap, out |-> Thrown("TypeError"), deep |-> MaxDeep(depth, items.results)]
    ELSE [heap |-> [items.heap EXCEPT ![Len(h) + 1] = Tuple(Outs(items.results))],
          out |-> Ref(Len(h) + 1), deep |-> MaxDeep(depth, items.results)]

\* the array branch
simplifyArrayGraph(h, type, depth) ==
    simplifyArrayOf(h, depth,
        simplifyEach(Append(h, Tuple(<<>>)), h[type.at].items, depth + 1, type, Ref(Len(h) + 1),
                     FALSE, <<>>))

\* simplify(type, depth, typeFrom, typeBuilding) on a value of the graph h
simplifyGraph(h, type, depth, typeFrom, typeBuilding) ==
    CASE IsString(type) -> [heap |-> h, out |-> type, deep |-> depth]
      [] ~IsString(type) /\ typeFrom = type ->
            [heap |-> h, out |-> IF Truthy(typeBuilding) THEN typeBuilding ELSE type, deep |-> depth]
      [] ~IsString(type) /\ typeFrom # type /\ DepthCut(depth) -> [heap |-> h, out |-> type, deep |-> depth]
      [] OTHER ->
            CASE ~Truthy(type) -> [heap |-> h, out |-> Thrown("TypeError"), deep |-> depth]
              [] Truthy(type) /\ IsArray(h[type.at]) -> simplifyArrayGraph(h, type, depth)
              [] Truthy(type) /\ isLuaFunction(h[type.at]) -> simplifyFunctionGraph(h, type, depth)
              [] Truthy(type) /\ h[type.at].k = "table" -> simplifyTableGraph(h, type, depth)
              [] Truthy(type) /\ HasOwnOr(h[type.at]) -> simplifyUnionGraph(h, type, depth)
              [] OTHER -> [heap |-> h, out |-> Thrown("TypeError"), deep |-> depth]

-----------------------------------------------------------------------------
(* util.ts and explore.ts: positions, ranges and the walker's tables.      *)
(* Objects that the program shares by reference live in heaps: a scope is  *)
(* an index into `scopes`; a LUT keyed by `:line:character` is a function  *)
(* of <<line, character>>.                                                 *)

Pos(line, character) == [line |-> line, character |-> character]

\* the `loc` the parser puts on a node: lines from 1, columns from 0
Loc(startLine, startColumn, endLine, endColumn) ==
    [start |-> [line |-> startLine, column |-> startColumn],
     end |-> [line |-> endLine, column |-> endColumn]]

locToRange(loc) ==
    LET l == IF loc = Undefined THEN Loc(1, 0, 1, 0) ELSE loc
    IN [start |-> Pos(l.start.line - 1, l.start.column),
        end |-> Pos(l.end.line - 1, l.end.column)]

rangeContains(range, position) ==
    \/ range.start.line < position.line /\ position.line < range.end.line
    \/ range.start.line = position.line /\ range.start.character <= position.character
    \/ range.end.line = position.line /\ position.character <= range.end.character

\* object[key] = value, and object[key]
Put(object, key, value) ==
    [k \in DOMAIN object \cup {key} |-> IF k = key THEN value ELSE object[k]]

Get(object, key) == IF key \in DOMAIN object THEN object[key] ELSE Undefined

\* the index of the own property `name` of a list of named entries, 0 without one
OwnIndex(entries, name) ==
    LET hits == {i \in 1..Len(entries) : entries[i].name = name}
    IN IF hits = {} THEN 0 ELSE CHOOSE i \in hits : TRUE

RECURSIVE Owner(_, _, _)
\* the scope, from `scope` up the prototype chain, whose `variables` own `name`; 0 if none
Owner(scopes, scope, name) ==
    IF scope = 0 THEN 0
    ELSE IF OwnIndex(scopes[scope].variables, name) # 0 THEN scope
    ELSE Owner(scopes, scopes[scope].parent, name)

\* scope.variables[name] through the prototype chain
ScopeVariable(scopes, scope, name) ==
    LET owner == Owner(scopes, scope, name)
    IN IF owner = 0 THEN Undefined
       ELSE scopes[owner].variables[OwnIndex(scopes[owner].variables, name)]

\* what the variable of that name becomes: scope.variables[name] = ... in the owner
SetVariable(scopes, owner, variable) ==
    LET at == OwnIndex(scopes[owner].variables, variable.name)
    IN [scopes EXCEPT ![owner].variables =
            IF at = 0 THEN Append(@, variable) ELSE [@ EXCEPT ![at] = variable]]

GlobalScope == [tag |-> "global", parent |-> 0, labels |-> <<>>, variables |-> <<>>]

EmptyChunk == [type |-> "Chunk", id |-> 0, loc |-> Undefined, body |-> <<>>, comments |-> <<>>]

\* SelfExplore.reset: every table is a new object, the global scope a new scope
reset(w) ==
    [w EXCEPT !.ast = EmptyChunk, !.aug = <<>>, !.docLineMap = <<>>,
              !.diagnostics = <<>>, !.symbols = <<>>, !.currentSymbol = <<>>,
              !.lutScopes = <<>>, !.globalScope = Len(w.scopes) + 1, !.currentScope = 0,
              !.lutVariables = <<>>, !.lutFunctions = <<>>, !.lutTables = <<>>,
              !.contextStack = <<>>, !.scopes = Append(w.scopes, GlobalScope)]

\* hint, information, warning, error
diagnostic(w, severity, message, range) ==
    [w EXCEPT !.diagnostics =
        Append(@, [message |-> message, range |-> range, severity |-> severity])]

\* the augmentation of a node: the properties the walker adds to the node object
Aug(w, node) ==
    IF node.id \in DOMAIN w.aug THEN w.aug[node.id]
    ELSE [augType |-> Undefined, augReturns |-> Undefined, augKey |-> Undefined,
          doNotTryToFindDocPlease |-> FALSE]

SetAugType(w, node, type) == [w EXCEPT !.aug = Put(@, node.id, [Aug(w, node) EXCEPT !.augType = type])]

RECURSIVE symbolAt(_, _)
\* the symbol at a path of child indexes
symbolAt(symbols, path) ==
    IF Len(path) = 1 THEN symbols[path[1]] ELSE symbolAt(symbols[path[1]].children, Tail(path))

RECURSIVE symbolPut(_, _, _)
\* the symbols with the one at the path replaced
symbolPut(symbols, path, symbol) ==
    IF Len(path) = 1 THEN [symbols EXCEPT ![path[1]] = symbol]
    ELSE [symbols EXCEPT ![path[1]].children = symbolPut(@, Tail(path), symbol)]

\* currentSymbol is the path of the symbol, <<>> for undefined
symbolEnter(w, name, kind, range, selectionRange) ==
    LET newSymbol == [name |-> name, kind |-> kind, range |-> range,
                      selectionRange |-> selectionRange, children |-> <<>>]
    IN IF w.currentSymbol # <<>> THEN
           LET parent == symbolAt(w.symbols, w.currentSymbol) IN
           [w EXCEPT !.symbols = symbolPut(@, w.currentSymbol,
                                      [parent EXCEPT !.children = Append(@, newSymbol)]),
                     !.currentSymbol = Append(@, Len(parent.children) + 1)]
       ELSE [w EXCEPT !.symbols = Append(@, newSymbol),
                      !.currentSymbol = <<Len(w.symbols) + 1>>]

symbolExit(w) ==
    IF w.currentSymbol # <<>>
    THEN [w EXCEPT !.currentSymbol = SubSeq(@, 1, Len(@) - 1)]
    ELSE w

\* forks a new scope from the current one and sets it as current
scopeFork(w, range, tag) ==
    [w EXCEPT !.scopes = Append(@, [tag |-> tag, parent |-> w.currentScope,
                                    labels |-> <<>>, variables |-> <<>>]),
              !.currentScope = Len(w.scopes) + 1,
              !.lutScopes = Append(@, [range |-> range, scope |-> Len(w.scopes) + 1])]

scopeRestore(w, previousScope) == [w EXCEPT !.currentScope = previousScope]

\* declares only a name that is not visible from the scope
variableDeclareUnlessVisible(w, name, range, type, scope) ==
    IF Owner(w.scopes, scope, name) = 0
    THEN [w EXCEPT !.scopes = SetVariable(@, scope,
              [name |-> name, types |-> <<type>>, ranges |-> <<range>>,
               scopes |-> <<scope>>, doc |-> Undefined])]
    ELSE w

\* only declare: an own property of the scope's variables is left alone
variableDeclare(w, name, range, type, scope) ==
    IF OwnIndex(w.scopes[scope].variables, name) = 0
    THEN [w EXCEPT !.scopes = SetVariable(@, scope,
              [name |-> name, types |-> <<type>>, ranges |-> <<range>>,
               scopes |-> <<scope>>, doc |-> Undefined])]
    ELSE w

\* only update: the variable visible from the current scope gets a new first entry
variableUpdate(w, name, range, type, scope) ==
    LET variable == ScopeVariable(w.scopes, w.currentScope, name)
    IN IF Truthy(variable)
       THEN [w EXCEPT !.scopes = SetVariable(@, Owner(w.scopes, w.currentScope, name),
                 [variable EXCEPT !.types = <<type>> \o @, !.ranges = <<range>> \o @,
                                  !.scopes = <<scope>> \o @])]
       ELSE w

\* a reference that does not look at where the last entry starts
variableReferenceAgain(w, name, range) ==
    LET variable == ScopeVariable(w.scopes, w.currentScope, name)
    IN IF Truthy(variable)
       THEN [w EXCEPT !.scopes = SetVariable(@, Owner(w.scopes, w.currentScope, name),
                 [variable EXCEPT !.types = <<variable.types[1]>> \o @,
                                  !.ranges = <<range>> \o @,
                                  !.scopes = <<variable.scopes[1]>> \o @])]
       ELSE w

variableReference(w, name, range) ==
    LET variable == ScopeVariable(w.scopes, w.currentScope, name)
    IN IF Truthy(variable) /\ variable.ranges[1].start # range.start
       THEN [w EXCEPT !.scopes = SetVariable(@, Owner(w.scopes, w.currentScope, name),
                 [variable EXCEPT !.types = <<variable.types[1]>> \o @,
                                  !.ranges = <<range>> \o @,
                                  !.scopes = <<variable.scopes[1]>> \o @])]
       ELSE w

\* this.docLineMap[range.start.line - 1]?.value
docMatching(w, range) ==
    LET it == Get(w.docLineMap, range.start.line - 1)
    IN IF Truthy(it) THEN it.value ELSE Undefined

variableLocate(w, name, range, shouldNotDoc) ==
    LET variable == ScopeVariable(w.scopes, w.currentScope, name)
        doc == IF Truthy(variable) /\ Truthy(variable.doc) THEN variable.doc
               ELSE IF shouldNotDoc THEN Undefined ELSE docMatching(w, range)
    IN [w EXCEPT !.lutVariables = Put(@, <<range.start.line, range.start.character>>,
            [range |-> range, name |-> name,
             type |-> IF Truthy(variable) THEN variable.types[1] ELSE TNil,
             doc |-> doc,
             scope |-> IF Truthy(variable) THEN variable.scopes[1] ELSE w.currentScope])]

functionLocate(w, type, range) ==
    [w EXCEPT !.lutFunctions = Put(@, <<range.end.line, range.end.character + 1>>,
        [range |-> range, type |-> type, doc |-> docMatching(w, range), scope |-> w.currentScope])]

contextPush(w, node) == [w EXCEPT !.contextStack = <<node>> \o @]

\* the first node of that type on the context stack, or undefined
contextFind(w, type) ==
    LET hits == {i \in 1..Len(w.contextStack) : w.contextStack[i].type = type}
    IN IF hits = {} THEN Undefined
       ELSE w.contextStack[CHOOSE i \in hits : \A j \in hits : i <= j]

\* a pop that leaves the stack as it is
contextPopNothing(w) == w

contextPop(w) == [w EXCEPT !.contextStack = IF @ = <<>> THEN @ ELSE Tail(@)]

\* a comment's value is its first line; the type is undefined when parse throws
docProcess(value) ==
    LET process(type) == [type |-> IF IsThrown(type) THEN Undefined ELSE type,
                          text |-> IF IsThrown(type) THEN value ELSE <<>>]
    IN process(parse(value))

RECURSIVE docGatherFrom(_, _)
docGatherFrom(w, comments) ==
    IF comments = <<>> THEN w
    ELSE LET it == comments[1]
             range == locToRange(it.loc)
         IN docGatherFrom(
                IF it.long
                THEN [w EXCEPT !.docLineMap = Put(@, range.end.line,
                          [range |-> range, value |-> docProcess(it.value)])]
                ELSE w,
                Tail(comments))

\* the long-string comments ("--[[ ... ]]") by the line they end on
docGather(w) == docGatherFrom(w, w.ast.comments)

\* it[l] of a list of types, undefined past its end
ItemAt(items, l) == IF l < Len(items) THEN items[l + 1] ELSE Undefined

RECURSIVE flattenLevels(_, _, _)
\* the do-while of flattenType: one union per position l of the flattened members
flattenLevels(flat, l, r) ==
    LET t(it) == IF IsArray(it)
                 THEN (IF Truthy(ItemAt(it.items, l)) THEN ItemAt(it.items, l) ELSE TNil)
                 ELSE IF l = 0 THEN it ELSE TNil
        keep == {k \in 1..Len(flat) :
                    t(flat[k]) # TNil \/ \A j \in 1..(k - 1) : t(flat[j]) # TNil}
        RECURSIVE pick(_)
        pick(k) == IF k > Len(flat) THEN <<>>
                   ELSE (IF k \in keep THEN <<t(flat[k])>> ELSE <<>>) \o pick(k + 1)
        level == pick(1)
    IN IF level = <<TNil>> THEN r
       ELSE flattenLevels(flat, l + 1, Append(r, buildBinaryTree(level)))

flattenType(type) ==
    IF Truthy(type) /\ HasOwnOr(type) THEN flattenLevels(flattenBinaryTree(type), 0, <<>>)
    ELSE <<IF Truthy(type) THEN type ELSE TNil>>

\* flattenType(it)[0], undefined for an empty list
FirstFlat(type) == ItemAt(flattenType(type), 0)

resolveListOfTypes(types) ==
    IF types = <<>> THEN <<>>
    ELSE LET last == types[Len(types)]
         IN [k \in 1..(Len(types) - 1) |->
                IF IsArray(types[k]) THEN FirstFlat(ItemAt(types[k].items, 0))
                ELSE FirstFlat(types[k])]
            \o (IF IsArray(last) THEN last.items ELSE flattenType(last))

-----------------------------------------------------------------------------
(* explore.ts: the handlers.  A handler takes the walker's state and a     *)
(* node and gives the state it leaves; `threw` names the error a handler   *)
(* raised, after which nothing more of the walk runs.                      *)

RECURSIVE visit(_, _)

RECURSIVE visitAll(_, _)
\* nodes.forEach(it => this.handlers[it.type](it))
visitAll(w, nodes) ==
    IF nodes = <<>> \/ w.threw # "" THEN w ELSE visitAll(visit(w, nodes[1]), Tail(nodes))

\* the own properties of Object.prototype, which `{}` inherits
ObjectPrototypeNames == {"constructor", "toString", "valueOf"}

\* Object.prototype[name]: a function object of the engine
Builtin == [k |-> "builtin"]

\* Object.prototype.hasOwnProperty.call(this.currentScope, name): the own
\* properties of a scope object are its three fields
ScopeHasOwnProperty(name) == name \in {"labels", "variables", "tag"}

Identifier(w, node) ==
    LET range == locToRange(node.loc)
        variable == ScopeVariable(w.scopes, w.currentScope, node.name)
        locate(w1) == variableLocate(w1, node.name, range, Aug(w1, node).doNotTryToFindDocPlease)
    IN locate(IF ~Truthy(Aug(w, node).augType)
              THEN variableReference(
                       SetAugType(w, node, IF Truthy(variable) THEN variable.types[1] ELSE Undefined),
                       node.name, range)
              ELSE w)

VarargLiteral(w, node) ==
    IF Truthy(Aug(w, node).augType) THEN w
    ELSE LET fun == contextFind(w, "FunctionDeclaration") IN
         IF ~Truthy(fun) THEN diagnostic(w, "Error", "not in a function", locToRange(node.loc))
         ELSE LET type == Aug(w, fun).augType IN
              SetAugType(w, node,
                  IF isLuaFunction(type) /\ Truthy(type.vararg) THEN type.vararg ELSE Tuple(<<>>))

ReturnStatement(w, node) ==
    LET fun == contextFind(w, "FunctionDeclaration") IN
    IF ~Truthy(fun)
    THEN diagnostic(w, "Error", "no function to return from", locToRange(node.loc))
    ELSE LET returns(w1) == IF Truthy(Aug(w1, fun).augReturns) THEN Aug(w1, fun).augReturns.list
                             ELSE <<>>
             push(w1) ==
                IF w1.threw # "" THEN w1
                ELSE [w1 EXCEPT !.aug = Put(@, fun.id,
                         [Aug(w1, fun) EXCEPT !.augReturns =
                             [k |-> "list", list |-> Append(returns(w1), node)]])]
         IN push(visitAll(w, node.arguments))

\* (it as aug.Expression).augType of each expression of a list
AugTypes(w, expressions) == [k \in 1..Len(expressions) |-> Aug(w, expressions[k]).augType]

RECURSIVE assignDeclareHere(_, _)
\* the first loop, with the name declared in the scope of the assignment
assignDeclareHere(w, variables) ==
    IF variables = <<>> THEN w
    ELSE LET it == variables[1]
             range == locToRange(it.loc)
         IN assignDeclareHere(
                IF it.type = "Identifier" /\ ~Truthy(ScopeVariable(w.scopes, w.currentScope, it.name))
                THEN symbolExit(Identifier(
                         variableDeclare(symbolEnter(w, it.name, "Object", range, range),
                                         it.name, range, TNil, w.currentScope),
                         it))
                ELSE w,
                Tail(variables))

RECURSIVE assignDeclare(_, _)
\* the first loop: a name that is not visible is declared globally as nil
assignDeclare(w, variables) ==
    IF variables = <<>> THEN w
    ELSE LET it == variables[1]
             range == locToRange(it.loc)
         IN assignDeclare(
                IF it.type = "Identifier" /\ ~Truthy(ScopeVariable(w.scopes, w.currentScope, it.name))
                THEN symbolExit(Identifier(
                         variableDeclare(symbolEnter(w, it.name, "Object", range, range),
                                         it.name, range, TNil, w.globalScope),
                         it))
                ELSE w,
                Tail(variables))

RECURSIVE assignUpdate(_, _, _, _)
\* the last loop: every name gets the type of its expression, every other
\* target gets it as its augType and is handled
assignUpdate(w, variables, k, types) ==
    IF k > Len(variables) \/ w.threw # "" THEN w
    ELSE LET it == variables[k]
             range == locToRange(it.loc)
             type == IF Truthy(ItemAt(types, k - 1)) THEN ItemAt(types, k - 1) ELSE TNil
             named(variable) ==
                IF Truthy(variable)
                THEN Identifier(variableUpdate(w, it.name, range, type, variable.scopes[1]), it)
                ELSE symbolExit(Identifier(
                         variableDeclare(symbolEnter(w, it.name, "Object", range, range),
                                         it.name, range, type, w.globalScope),
                         it))
         IN assignUpdate(
                IF it.type = "Identifier"
                THEN named(ScopeVariable(w.scopes, w.currentScope, it.name))
                ELSE visit(SetAugType(w, it, type), it),
                variables, k + 1, types)

AssignmentStatement(w, node) ==
    LET typesFromExpressions(w2) == [k \in 1..Len(node.init) |->
            IF Truthy(Aug(w2, node.init[k]).augType) THEN Aug(w2, node.init[k]).augType ELSE TNil]
        update(w2) ==
            IF w2.threw # "" THEN w2
            ELSE assignUpdate(w2, node.variables, 1, resolveListOfTypes(typesFromExpressions(w2)))
    IN update(visitAll(assignDeclare(w, node.variables), node.init))

\* x ?? 'nil'
OrNil(type) == IF type = Undefined \/ type = Null THEN TNil ELSE type

RECURSIVE localDeclare(_, _, _, _)
\* node.variables.forEach((it, k) => ...): every name is declared in the
\* current scope; the test of the scope object finds no variable name
localDeclare(w, variables, k, types) ==
    IF k > Len(variables) THEN w
    ELSE LET it == variables[k]
             range == locToRange(it.loc)
             type == OrNil(ItemAt(types, k - 1))
             declare(w1) ==
                IF ScopeHasOwnProperty(it.name)
                THEN diagnostic(variableUpdate(w1, it.name, range, type, w1.currentScope),
                         "Warning", <<it.name, " is already a local variable">>, range)
                ELSE Identifier(variableDeclare(w1, it.name, range, type, w1.currentScope), it)
         IN localDeclare(symbolExit(declare(symbolEnter(w, it.name, "Object", range, range))),
                         variables, k + 1, types)

LocalStatement(w, node) ==
    LET typesFromExpressions(w2) ==
            [k \in 1..Len(node.init) |-> OrNil(Aug(w2, node.init[k]).augType)]
        declare(w2) ==
            IF w2.threw # "" THEN w2
            ELSE localDeclare(w2, node.variables, 1, resolveListOfTypes(typesFromExpressions(w2)))
    IN declare(visitAll(w, node.init))

DoStatement(w, node) ==
    LET previousScope == w.currentScope
        leave(w3) == IF w3.threw # "" THEN w3 ELSE contextPop(scopeRestore(w3, previousScope))
    IN leave(visitAll(scopeFork(contextPush(w, node), locToRange(node.loc),
                                <<"do line ", node.loc.start.line>>),
                      node.body))

\* a LuaKey: a string, a number, a boolean or a typed key { type }
Key(kind, value) == [k |-> kind, value |-> value]

isLuaTypedKey(key) == Truthy(key) /\ key.k = "typed key"

\* the properties a table handler adds to its field
SetAugField(w, node, key, type) ==
    [w EXCEPT !.aug = Put(@, node.id, [Aug(w, node) EXCEPT !.augKey = key, !.augType = type])]

\* node.key.value of a literal key, by the type of the literal
KeyValue(key) ==
    Key(CASE key.type = "StringLiteral" -> "string"
          [] key.type = "NumericLiteral" -> "number"
          [] key.type = "BooleanLiteral" -> "boolean",
        key.value)

\* `[key] = value`
TableKey(w, node) ==
    LET keyed(w2) ==
            LET type == Aug(w2, node.key).augType
                value == OrNil(Aug(w2, node.value).augType)
            IN IF type \in {TString, TNumber, TBoolean}
               THEN SetAugField(w2, node,
                        IF node.key.type \in {"StringLiteral", "NumericLiteral", "BooleanLiteral"}
                        THEN KeyValue(node.key) ELSE Key("typed key", type.name),
                        value)
               ELSE IF type = TNil
               THEN SetAugField(diagnostic(w2, "Warning", "the table will not be indexable by 'nil'",
                                           locToRange(node.key.loc)),
                                node, Null, value)
               ELSE SetAugType(w2, node, value)
        after(w2) == IF w2.threw # "" THEN w2 ELSE keyed(w2)
    IN after(visitAll(w, <<node.key, node.value>>))

\* `name = value`
TableKeyString(w, node) ==
    LET range == locToRange(node.key.loc)
        named(w2) ==
            LET type == OrNil(Aug(w2, node.value).augType)
            IN [SetAugField(w2, node, Key("string", node.key.name), type) EXCEPT
                    !.lutVariables = Put(@, <<range.start.line, range.start.character>>,
                        [range |-> range, name |-> node.key.name, type |-> type,
                         doc |-> Undefined, scope |-> w2.currentScope])]
        after(w2) == IF w2.threw # "" THEN w2 ELSE named(w2)
    IN after(visit(w, node.value))

\* `value`
TableValue(w, node) ==
    LET after(w2) == IF w2.threw # "" THEN w2
                     ELSE SetAugField(w2, node, Undefined, OrNil(Aug(w2, node.value).augType))
    IN after(visit(w, node.value))

\* object[key] = type on the integer keys of an object, which it lists in ascending order
setIndex(seq, key, type) ==
    IF \E i \in 1..Len(seq) : seq[i].key = key THEN setEntry(seq, key, type)
    ELSE LET before == {i \in 1..Len(seq) : seq[i].key < key}
         IN [i \in 1..(Len(seq) + 1) |->
                IF i <= Cardinality(before) THEN seq[i]
                ELSE IF i = Cardinality(before) + 1 THEN Entry(key, type)
                ELSE seq[i - 1]]

RECURSIVE spreadSequence(_, _, _)
\* augmented.augType.forEach(_it => type.sequence[keyCounting++] = _it)
spreadSequence(made, keyCounting, items) ==
    IF items = <<>> THEN made
    ELSE spreadSequence([made EXCEPT !.type.sequence = setIndex(@, keyCounting, items[1]),
                                     !.keyCounting = keyCounting + 1],
                        keyCounting + 1, Tail(items))

\* what a field adds to the type of the table: made is [w, type, keyCounting]
tableField(made, it, isLast) ==
    LET augmented == Aug(made.w, it)
        augKey == augmented.augKey
        t == IF IsArray(augmented.augType) THEN OrNil(ItemAt(augmented.augType.items, 0))
             ELSE OrNil(augmented.augType)
    IN IF augKey = Null THEN made
       ELSE IF IsArray(augmented.augType) /\ isLast /\ augKey = Undefined
       THEN spreadSequence(made, made.keyCounting, augmented.augType.items)
       ELSE IF augKey = Undefined
       THEN [made EXCEPT !.w = SetAugField(@, it, Key("number", made.keyCounting), augmented.augType),
                         !.type.sequence = setIndex(@, made.keyCounting, t),
                         !.keyCounting = @ + 1]
       ELSE IF isLuaTypedKey(augKey)
       THEN [made EXCEPT !.type.typed =
                Typed(setEntry(IF Truthy(@) THEN @.keys ELSE <<>>, augKey.value, t))]
       ELSE IF augKey.k = "string" THEN [made EXCEPT !.type.entries = setEntry(@, augKey.value, t)]
       ELSE IF augKey.k = "number" THEN [made EXCEPT !.type.sequence = setIndex(@, augKey.value, t)]
       ELSE IF augKey.value THEN [made EXCEPT !.type.true = t]
       ELSE [made EXCEPT !.type.false = t]

RECURSIVE tableFields(_, _, _)
\* node.fields.forEach((it, k) => ...)
tableFields(made, fields, k) ==
    IF k > Len(fields) \/ made.w.threw # "" THEN made
    ELSE LET handled(w2) ==
                IF w2.threw # "" THEN [made EXCEPT !.w = w2]
                ELSE tableField([made EXCEPT !.w = w2], fields[k], k = Len(fields))
         IN tableFields(handled(visit(made.w, fields[k])), fields, k + 1)

tableLocate(w, type, range) ==
    [w EXCEPT !.lutTables = Put(@, <<range.end.line, range.end.character + 1>>,
        [range |-> range, type |-> type, doc |-> docMatching(w, range), scope |-> w.currentScope])]

TableConstructorExpression(w, node) ==
    LET located(made) ==
            IF made.w.threw # "" THEN made.w
            ELSE contextPop(tableLocate(SetAugType(made.w, node, made.type), made.type,
                                        locToRange(node.loc)))
    IN located(tableFields([w |-> contextPush(w, node), type |-> EmptyTable, keyCounting |-> 1],
                           node.fields, 1))

\* the type object `old` is now `new`: the objects are shared, and every
\* holder of the object sees what was written into it.  An object is known
\* here by its value; the scripts make one table object per value.
Mutate(w, old, new) ==
    LET swap(type) == IF type = old THEN new ELSE type
        held(variable) == [variable EXCEPT !.types = [j \in 1..Len(variable.types) |-> swap(variable.types[j])]]
    IN [w EXCEPT
        !.scopes = [s \in 1..Len(w.scopes) |->
            [w.scopes[s] EXCEPT !.variables =
                [i \in 1..Len(w.scopes[s].variables) |-> held(w.scopes[s].variables[i])]]],
        !.lutVariables = [key \in DOMAIN w.lutVariables |->
            [w.lutVariables[key] EXCEPT !.type = swap(w.lutVariables[key].type)]],
        !.lutTables = [key \in DOMAIN w.lutTables |->
            [w.lutTables[key] EXCEPT !.type = swap(w.lutTables[key].type)]],
        !.aug = [id \in DOMAIN w.aug |-> [w.aug[id] EXCEPT !.augType = swap(w.aug[id].augType)]]]

\* tbType.entries[name]: entries is a plain object, and an array has none
\* of its own
tableEntry(tbType, name) ==
    IF IsArray(tbType) THEN Undefined
    ELSE IF getEntry(tbType.entries, name) # Undefined THEN getEntry(tbType.entries, name)
    ELSE IF name \in ObjectPrototypeNames THEN Builtin
    ELSE Undefined

\* tbType && !isLuaTable(tbType) && 'any' !== tbType
NotATable(tbType) == Truthy(tbType) /\ ~isLuaTable(tbType) /\ tbType # TAny

expectedTable(w, base) ==
    IF NotATable(Aug(w, base).augType)
    THEN diagnostic(w, "Warning", <<"expected a table, got ">> \o represent(Aug(w, base).augType, 1),
                    locToRange(base.loc))
    ELSE w

\* `base.identifier`: read from the entries of the table, or written into
\* them when the assignment has given the node its type
MemberExpression(w, node) ==
    LET range == locToRange(node.identifier.loc)
        name == node.identifier.name
        located(w3, type) ==
            [w3 EXCEPT !.lutVariables = Put(@, <<range.start.line, range.start.character>>,
                [range |-> range, name |-> name, type |-> type,
                 doc |-> Undefined, scope |-> w3.currentScope])]
        read(w2, tbType) ==
            IF Truthy(tbType) /\ isLuaTable(tbType) THEN OrNil(tableEntry(tbType, name)) ELSE TNil
        written(w2, tbType, type) ==
            IF Truthy(tbType) /\ isLuaTable(tbType) /\ ~IsArray(tbType)
            THEN Mutate(w2, tbType, [tbType EXCEPT !.entries = setEntry(@, name, type)])
            ELSE w2
        typed(w2, tbType) ==
            IF ~Truthy(Aug(w2, node).augType)
            THEN located(SetAugType(w2, node, read(w2, tbType)), read(w2, tbType))
            ELSE located(written(w2, tbType, Aug(w2, node).augType), Aug(w2, node).augType)
        handled(w1) ==
            IF w1.threw # "" THEN w1
            ELSE typed(expectedTable(w1, node.base), Aug(w1, node.base).augType)
    IN handled(visit(w, node.base))

\* 'string' === keyType || 'number' === keyType || 'boolean' === keyType
IsKeyType(keyType) == keyType \in {TString, TNumber, TBoolean}

\* tbType.typed?.[keyType]
typedEntry(tbType, keyType) ==
    IF IsArray(tbType) \/ ~Truthy(tbType.typed) THEN Undefined
    ELSE getEntry(tbType.typed.keys, keyType)

\* `base[index]`: read from the typed keys of the table by the type of the
\* index, or written into them
IndexExpression(w, node) ==
    LET expectedKey(w2, keyType) ==
            IF Truthy(keyType) /\ (keyType.k # "atom" \/ keyType = TNil)
            THEN diagnostic(w2, "Warning",
                     <<"expected a string, number or boolean, got ">> \o represent(keyType, 1),
                     locToRange(node.index.loc))
            ELSE w2
        keyed(tbType, keyType) == Truthy(tbType) /\ isLuaTable(tbType) /\ IsKeyType(keyType)
        typed(w2, tbType, keyType) ==
            IF ~Truthy(Aug(w2, node).augType)
            THEN SetAugType(w2, node,
                     IF keyed(tbType, keyType) THEN OrNil(typedEntry(tbType, keyType)) ELSE TNil)
            ELSE IF keyed(tbType, keyType) /\ ~IsArray(tbType)
            THEN Mutate(w2, tbType,
                     [tbType EXCEPT !.typed =
                        Typed(setEntry(IF Truthy(@) THEN @.keys ELSE <<>>, keyType,
                                       Aug(w2, node).augType))])
            ELSE w2
        handled(w1) ==
            IF w1.threw # "" THEN w1
            ELSE typed(expectedKey(expectedTable(w1, node.base), Aug(w1, node.index).augType),
                       Aug(w1, node.base).augType, Aug(w1, node.index).augType)
    IN handled(visitAll(w, <<node.base, node.index>>))

\* a type that is not 'number', 'any' as well
NotNumber(type) == Truthy(type) /\ type # TNumber

\* augmented.augType && 'number' !== augmented.augType && 'any' !== augmented.augType
NotANumber(type) == Truthy(type) /\ type # TNumber /\ type # TAny

RECURSIVE forBounds(_, _)
\* [node.start, node.end, node.step].forEach(it => ...)
forBounds(w, expressions) ==
    IF expressions = <<>> \/ w.threw # "" THEN w
    ELSE LET it == expressions[1]
             warned(w2) ==
                IF w2.threw = "" /\ NotANumber(Aug(w2, it).augType)
                THEN diagnostic(w2, "Warning",
                         <<"expected a number, got ">> \o represent(Aug(w2, it).augType, 1),
                         locToRange(it.loc))
                ELSE w2
         IN forBounds(IF Truthy(it) THEN warned(visit(w, it)) ELSE w, Tail(expressions))

ForNumericStatement(w, node) ==
    LET previousScope == w.currentScope
        leave(w3) == IF w3.threw # "" THEN w3 ELSE contextPop(scopeRestore(w3, previousScope))
        body(w2) == IF w2.threw # "" THEN w2 ELSE visitAll(w2, node.body)
    IN leave(body(forBounds(
            Identifier(scopeFork(contextPush(w, node), locToRange(node.loc),
                                 <<"for line ", node.loc.start.line>>),
                       node.variable),
            <<node.start, node.end, node.step>>)))

CallStatement(w, node) ==
    LET leave(w2) == IF w2.threw # "" THEN w2 ELSE contextPop(w2)
    IN leave(visit(contextPush(w, node), node.expression))

\* yesFnType && yesFnType.parameters[k]?.type || 'nil', k from 1
ExpectedType(yesFnType, k) ==
    IF Truthy(yesFnType) /\ k <= Len(yesFnType.parameters) /\ Truthy(ParamType(yesFnType, k))
    THEN ParamType(yesFnType, k) ELSE TNil

\* the argument is compared with the parameter: both types are known
Compares(type, yesFnType, expected) ==
    Truthy(type) /\ Truthy(yesFnType) /\ ~(type = TAny \/ expected = TAny)

RECURSIVE callArguments(_, _, _, _)
\* node.arguments.forEach((it, k) => ...)
callArguments(w, arguments, k, yesFnType) ==
    IF k > Len(arguments) \/ w.threw # "" THEN w
    ELSE LET it == arguments[k]
             expected == ExpectedType(yesFnType, k)
             mismatch(w2, type, same) ==
                IF same = "TypeError" THEN [w2 EXCEPT !.threw = "TypeError"]
                ELSE IF same = "false"
                THEN diagnostic(w2, "Warning",
                         <<"expected ">> \o represent(expected, 1)
                         \o (IF expected = TNil THEN <<" (or nothing)">> ELSE <<>>)
                         \o <<", got ">> \o represent(type, 1),
                         locToRange(it.loc))
                ELSE w2
             checked(w2, type) ==
                IF w2.threw = "" /\ Compares(type, yesFnType, expected)
                THEN mismatch(w2, type, equivalent(expected, type, 1))
                ELSE w2
             handled(w2) == checked(w2, Aug(w2, it).augType)
         IN callArguments(handled(visit(w, it)), arguments, k + 1, yesFnType)

CallExpression(w, node) ==
    LET called(w2, fnType, yesFnType) ==
            callArguments(
                SetAugType(
                    IF Truthy(fnType) /\ ~Truthy(yesFnType) /\ fnType # TAny
                    THEN diagnostic(w2, "Warning",
                             <<"expected a function, got ">> \o represent(fnType, 1),
                             locToRange(node.base.loc))
                    ELSE w2,
                    node, IF Truthy(yesFnType) THEN yesFnType.return ELSE TNil),
                node.arguments, 1, yesFnType)
        typed(w2, fnType) ==
            called(w2, fnType, IF isLuaFunction(fnType) THEN fnType ELSE Undefined)
        based(w2) == IF w2.threw # "" THEN w2 ELSE typed(w2, Aug(w2, node.base).augType)
        leave(w2) == IF w2.threw # "" THEN w2 ELSE contextPop(w2)
    IN leave(based(visit(contextPush(w, node), node.base)))

RECURSIVE LabelOwner(_, _, _)
\* the scope of the chain that has the label as an own property, 0 for none
LabelOwner(scopes, scope, name) ==
    IF scope = 0 THEN 0
    ELSE IF OwnIndex(scopes[scope].labels, name) # 0 THEN scope
    ELSE LabelOwner(scopes, scopes[scope].parent, name)

\* this.currentScope.labels[name] through the prototype chain
ScopeLabel(scopes, scope, name) ==
    IF LabelOwner(scopes, scope, name) = 0 THEN Undefined
    ELSE scopes[LabelOwner(scopes, scope, name)].labels[
            OwnIndex(scopes[LabelOwner(scopes, scope, name)].labels, name)].range

LabelStatement(w, node) ==
    LET range == locToRange(node.loc)
        previous == ScopeLabel(w.scopes, w.currentScope, node.label.name)
    IN IF OwnIndex(w.scopes[w.currentScope].labels, node.label.name) # 0
       THEN diagnostic(w, "Warning", <<"label already defined line ", previous.start.line>>, range)
       ELSE [w EXCEPT !.scopes[w.currentScope].labels =
                Append(@, [name |-> node.label.name, range |-> range])]

\* Object.prototype.hasOwnProperty.call(this.currentScope.labels, label.name)
gotoFinds(w, name) == OwnIndex(w.scopes[w.currentScope].labels, name) # 0

\* the type of the LUT entry of a label is the text "line <n>"
GotoStatement(w, node) ==
    LET range == locToRange(node.label.loc)
        line == ScopeLabel(w.scopes, w.currentScope, node.label.name).start.line
    IN IF ~gotoFinds(w, node.label.name)
       THEN diagnostic(w, "Warning", "label not defined or not visible", locToRange(node.loc))
       ELSE [w EXCEPT !.lutVariables = Put(@, <<range.start.line, range.start.character>>,
                [range |-> range, name |-> node.label.name,
                 type |-> [k |-> "line", value |-> line + 1], doc |-> Undefined,
                 scope |-> w.currentScope])]

RECURSIVE functionParameters(_, _, _, _, _)
\* node.parameters.flatMap((it, k) => ...): the walker's state with the
\* parameters and the vararg type found so far
functionParameters(w, node, overrideType, k, found) ==
    IF k > Len(node.parameters) \/ w.threw # "" THEN [w |-> w, found |-> found]
    ELSE LET it == node.parameters[k]
             itRange == locToRange(it.loc)
         IN IF it.type = "Identifier" THEN
                \* overrideType.parameters[k].type of a parameter the doc does not have
                IF Truthy(overrideType) /\ k > Len(overrideType.parameters)
                THEN [w |-> [w EXCEPT !.threw = "TypeError"], found |-> found]
                ELSE LET type == IF Truthy(overrideType) THEN ParamType(overrideType, k) ELSE TNil
                         next(w2) ==
                            functionParameters(w2, node, overrideType, k + 1,
                                [found EXCEPT !.parameters = Append(@,
                                    Param(it.name, IF Truthy(Aug(w2, it).augType)
                                                   THEN Aug(w2, it).augType ELSE TNil))])
                         identify(w1) ==
                            next(Identifier(
                                   [w1 EXCEPT !.aug = Put(@, it.id,
                                       [Aug(w1, it) EXCEPT !.doNotTryToFindDocPlease = TRUE])], it))
                     IN identify(IF ScopeHasOwnProperty(it.name)
                                 THEN diagnostic(variableUpdate(w, it.name, itRange, type, w.currentScope),
                                          "Warning", <<it.name, " is shadowing a previous local variable">>,
                                          itRange)
                                 ELSE variableDeclare(w, it.name, itRange, type, w.currentScope))
            ELSE LET varargType == IF Truthy(overrideType) /\ Truthy(overrideType.vararg)
                                   THEN overrideType.vararg ELSE Tuple(<<>>)
                 IN functionParameters(VarargLiteral(SetAugType(w, it, varargType), it),
                        node, overrideType, k + 1, [found EXCEPT !.varargType = varargType])

\* the last return found only
functionReturnLast(w, node) ==
    LET augReturns == Aug(w, node).augReturns
        last == LET list == resolveListOfTypes(AugTypes(w, augReturns.list[Len(augReturns.list)].arguments))
                IN IF Len(list) = 0 THEN TNil
                   ELSE IF Len(list) = 1 THEN list[1] ELSE Tuple(list)
    IN IF Truthy(augReturns) THEN last ELSE TNil

\* the union of the types returned, 'nil' without a return
functionReturn(w, node) ==
    LET augReturns == Aug(w, node).augReturns
        one(it) == LET list == resolveListOfTypes(AugTypes(w, it.arguments))
                   IN IF Len(list) = 0 THEN TNil
                      ELSE IF Len(list) = 1 THEN list[1] ELSE Tuple(list)
        ret == IF Truthy(augReturns)
               THEN buildBinaryTree([k \in 1..Len(augReturns.list) |-> one(augReturns.list[k])])
               ELSE TNil
    IN IF Truthy(ret) THEN ret ELSE TNil

\* the name of the function is declared, or updated, with its type
functionName(w, node, type, declare, scope) ==
    IF ~Truthy(node.identifier) THEN w
    ELSE LET name == node.identifier.name
             identRange == locToRange(node.identifier.loc)
         IN IF ScopeHasOwnProperty(name)
            THEN diagnostic(variableUpdate(w, name, identRange, type, w.currentScope),
                     "Warning", <<name, " is shadowing a previous local variable">>, identRange)
            ELSE IF declare THEN variableDeclare(w, name, identRange, type, scope)
            ELSE variableUpdate(w, name, identRange, type, scope)

\* no warning at the return statements
warnReturnsNowhere(w, returns) == w

RECURSIVE warnReturns(_, _)
warnReturns(w, returns) ==
    IF returns = <<>> THEN w
    ELSE warnReturns(diagnostic(w, "Warning", "signature is conflicting with the doc comment's type",
                                locToRange(returns[1].loc)), Tail(returns))

\* the function declarations of the programs walked here are named by an
\* identifier or anonymous
FunctionDeclaration(w, node) ==
    LET range == locToRange(node.loc)
        doc == docMatching(w, range)
        overrideType == IF Truthy(doc) /\ isLuaFunction(doc.type) THEN doc.type ELSE Undefined
        previousScope == w.currentScope
        partial(found) == IF Truthy(overrideType) THEN overrideType
                          ELSE Function(found.parameters, found.varargType, TNil)
        \* the name gets the final type, or the function is located
        finish(w5, augType) ==
            symbolExit(
                IF Truthy(node.identifier)
                THEN Identifier(functionName(w5, node, augType, FALSE,
                                    IF node.isLocal THEN w5.currentScope ELSE w5.globalScope),
                                node.identifier)
                ELSE functionLocate(w5, augType, range))
        conclude(w4, augType, conflict) ==
            IF conflict = "TypeError" THEN [w4 EXCEPT !.threw = "TypeError"]
            ELSE finish(
                    IF conflict = "false"
                    THEN warnReturns(
                             diagnostic(SetAugType(w4, node, augType), "Warning",
                                 "signature is conflicting with the doc comment's type",
                                 IF Truthy(node.identifier) THEN locToRange(node.identifier.loc) ELSE range),
                             IF Truthy(Aug(w4, node).augReturns) THEN Aug(w4, node).augReturns.list
                             ELSE <<>>)
                    ELSE SetAugType(w4, node, augType),
                    augType)
        compare(w4, resolved) ==
            conclude(w4, IF Truthy(overrideType) THEN overrideType ELSE resolved,
                     IF Truthy(overrideType) THEN equivalent(overrideType, resolved, 1) ELSE "true")
        \* the scope and the context are left, the returns are resolved
        leave(w3, found) ==
            IF w3.threw # "" THEN w3
            ELSE LET resolve(w4) ==
                        compare(w4, Function(found.parameters, found.varargType, functionReturn(w4, node)))
                 IN resolve(contextPop(scopeRestore(w3, previousScope)))
        \* the name gets the partial type, the body is walked
        enter(p) ==
            IF p.w.threw # "" THEN p.w
            ELSE leave(visitAll(functionName(SetAugType(p.w, node, partial(p.found)), node,
                                             partial(p.found), TRUE,
                                             IF node.isLocal THEN previousScope ELSE w.globalScope),
                                node.body),
                       p.found)
    IN enter(functionParameters(
                scopeFork(contextPush(
                    symbolEnter(w, IF Truthy(node.identifier) THEN node.identifier.name ELSE "<anonymous>",
                                "Function", range, range), node),
                    range, <<"function line ", node.loc.start.line>>),
                node, overrideType, 1, [parameters |-> <<>>, varargType |-> Undefined]))

Chunk(w, node) ==
    LET leave(w3) == IF w3.threw # "" THEN w3 ELSE contextPop(w3)
    IN leave(visitAll(
            [contextPush(w, node) EXCEPT
                !.currentScope = w.globalScope,
                !.lutScopes = Append(@, [range |-> locToRange(node.loc), scope |-> w.globalScope])],
            node.body))

\* this.handlers[node.type](node)
visit(w, node) ==
    CASE node.type = "Chunk" -> Chunk(w, node)
      [] node.type = "Identifier" -> Identifier(w, node)
      [] node.type = "FunctionDeclaration" -> FunctionDeclaration(w, node)
      [] node.type = "ReturnStatement" -> ReturnStatement(w, node)
      [] node.type = "AssignmentStatement" -> AssignmentStatement(w, node)
      [] node.type = "LocalStatement" -> LocalStatement(w, node)
      [] node.type = "DoStatement" -> DoStatement(w, node)
      [] node.type = "LabelStatement" -> LabelStatement(w, node)
      [] node.type = "GotoStatement" -> GotoStatement(w, node)
      [] node.type = "ForNumericStatement" -> ForNumericStatement(w, node)
      [] node.type = "CallStatement" -> CallStatement(w, node)
      [] node.type = "CallExpression" -> CallExpression(w, node)
      [] node.type = "TableKey" -> TableKey(w, node)
      [] node.type = "TableKeyString" -> TableKeyString(w, node)
      [] node.type = "TableValue" -> TableValue(w, node)
      [] node.type = "TableConstructorExpression" -> TableConstructorExpression(w, node)
      [] node.type = "MemberExpression" -> MemberExpression(w, node)
      [] node.type = "IndexExpression" -> IndexExpression(w, node)
      [] node.type = "NumericLiteral" -> SetAugType(w, node, TNumber)
      [] node.type = "StringLiteral" -> SetAugType(w, node, TString)
      [] node.type = "BooleanLiteral" -> SetAugType(w, node, TBoolean)
      [] node.type = "NilLiteral" -> SetAugType(w, node, TNil)
      [] node.type = "VarargLiteral" -> VarargLiteral(w, node)

\* SelfExplore.explore
explore(w) == Chunk(docGather(w), w.ast)

-----------------------------------------------------------------------------
(* The programs walked: what the parser returns for a text.  A program is  *)
(* one statement on lines 2 to 4, with or without a long comment on line 1,*)
(* the place where docMatching looks for the doc of the statement.         *)

MaxParams == 2

Node(type, id, loc) == [type |-> type, id |-> id, loc |-> loc]

Ident(name, id, loc) == [type |-> "Identifier", id |-> id, loc |-> loc, name |-> name]

\* `return <arguments>` on line 3
Return(arguments) ==
    [type |-> "ReturnStatement", id |-> 4, loc |-> Loc(3, 2, 3, 10), arguments |-> arguments]

\* the bodies of a function with n parameters: empty, `return`, `return 1`,
\* `return ...`, and `return a` when there is an `a`
Bodies(n) ==
    { <<>>, <<Return(<<>>)>>,
      <<Return(<<Node("NumericLiteral", 5, Loc(3, 9, 3, 10))>>)>>,
      <<Return(<<Node("VarargLiteral", 5, Loc(3, 9, 3, 12))>>)>> }
    \cup (IF n > 0 THEN {<<Return(<<Ident("a", 5, Loc(3, 9, 3, 10))>>)>>} ELSE {})

ParamNames == <<"a", "b", "c", "d">>

\* `function <identifier>(a, b, ...) <body> end`, from column `column` of line 2
FunctionNode(identifier, isLocal, n, hasVararg, body, column) ==
    [type |-> "FunctionDeclaration", id |-> 2, loc |-> Loc(2, column, 4, 3),
     identifier |-> identifier, isLocal |-> isLocal,
     parameters |-> [k \in 1..n |-> Ident(ParamNames[k], 8 + k, Loc(2, 20 + 3 * k, 2, 21 + 3 * k))]
                    \o (IF hasVararg THEN <<Node("VarargLiteral", 3, Loc(2, 40, 2, 43))>> ELSE <<>>),
     body |-> body]

\* the chunk of one statement and, for a doc line, the long comment above it
Program(statement, docLine) ==
    [type |-> "Chunk", id |-> 1, loc |-> Loc(2, 0, 4, 3), body |-> <<statement>>,
     comments |-> IF docLine = <<>> THEN <<>>
                  ELSE <<[type |-> "Comment", loc |-> Loc(1, 0, 1, 30), long |-> TRUE, value |-> docLine]>>]

\* `<name> = <init>` on line 2
Assignment(name, init) ==
    [type |-> "AssignmentStatement", id |-> 6, loc |-> Loc(2, 0, 4, 3),
     variables |-> <<Ident(name, 7, Loc(2, 0, 2, 1))>>, init |-> <<init>>]

\* the first line of a doc comment: no comment, a type that is no function,
\* function types of 0 to 2 parameters, and a line that is no type
DocLines ==
    { <<>>, <<"?">>, represent(TNumber, 1),
      represent(Function(<<>>, Undefined, TNil), 1),
      represent(Function(<<>>, TNumber, TNil), 1),
      represent(Function(<<Param("a", TNumber)>>, Undefined, TNumber), 1),
      represent(Function(<<Param("a", TNumber)>>, Undefined, TString), 1),
      represent(Function(<<Param("a", TNumber), Param("b", TString)>>, Undefined, TNil), 1) }

Statements ==
    UNION {
        { FunctionNode(Ident("f", 8, Loc(2, 9, 2, 10)), isLocal, n, hasVararg, body, 0),
          Assignment("x", FunctionNode(Undefined, FALSE, n, hasVararg, body, 4)) }
        : <<isLocal, n, hasVararg, body>> \in
            {<<l, m, v, b>> \in BOOLEAN \X (0..MaxParams) \X BOOLEAN \X UNION {Bodies(m) : m \in 0..MaxParams} :
                b \in Bodies(m)} }
    \cup { Return(<<>>),
           Assignment("x", Node("NumericLiteral", 5, Loc(2, 4, 2, 5))),
           Assignment("x", Node("VarargLiteral", 5, Loc(2, 4, 2, 7))) }

Programs == {Program(statement, docLine) : statement \in Statements, docLine \in DocLines}

-----------------------------------------------------------------------------
(* The scripts walked: chunks of several statements, one statement per line *)
(* from line 2, with the nodes and the locations the parser gives them.     *)

Literal(type, id, line, column) == Node(type, id, Loc(line, column, line, column + 1))

IdentAt(name, id, line, column) == Ident(name, id, Loc(line, column, line, column + 1))

\* `local <name> = <init>`, `local <name>` for no init
Local(name, init, id, line, column) ==
    [type |-> "LocalStatement", id |-> id, loc |-> Loc(line, column, line, column + 12),
     variables |-> <<IdentAt(name, id + 1, line, column + 6)>>, init |-> init]

\* `<name> = <init>`
AssignAt(name, init, id, line, column) ==
    [type |-> "AssignmentStatement", id |-> id, loc |-> Loc(line, column, line, column + 6),
     variables |-> <<IdentAt(name, id + 1, line, column)>>, init |-> <<init>>]

\* `do <body> end`
Do(body, id, line, column, endLine) ==
    [type |-> "DoStatement", id |-> id, loc |-> Loc(line, column, endLine, 60), body |-> body]

\* the chunk of the statements, or of `do <statements> end` from line 1
Script(body, wrapped) ==
    [type |-> "Chunk", id |-> 1, loc |-> Loc(1, 0, 9, 0), comments |-> <<>>,
     body |-> IF wrapped THEN <<Do(body, 2, 1, 0, 9)>> ELSE body]

\* line 2 makes an x, line 3 is a block that declares its own x, line 4 reads x:
\*     local x = 1 | x = 1
\*     do local x [= "s" | = nil] [x = true] end
\*     [y = x]
ShadowBlock(init, assigns) ==
    Do(<<Local("x", init, 21, 3, 3)>>
       \o (IF assigns THEN <<AssignAt("x", Literal("BooleanLiteral", 26, 3, 20), 24, 3, 16)>> ELSE <<>>),
       20, 3, 0, 3)

ShadowOuter(isLocal) ==
    IF isLocal THEN Local("x", <<Literal("NumericLiteral", 12, 2, 10)>>, 10, 2, 0)
    ELSE AssignAt("x", Literal("NumericLiteral", 12, 2, 4), 10, 2, 0)

ShadowAfter == AssignAt("y", IdentAt("x", 32, 4, 4), 30, 4, 0)

ShadowInits == { <<>>, <<Literal("StringLiteral", 23, 3, 13)>>, <<Literal("NilLiteral", 23, 3, 13)>> }

ShadowScript(isLocal, wrapped, init, assigns, reads) ==
    Script(<<ShadowOuter(isLocal), ShadowBlock(init, assigns)>>
           \o (IF reads THEN <<ShadowAfter>> ELSE <<>>), wrapped)

ShadowScripts ==
    { ShadowScript(isLocal, wrapped, init, assigns, reads) :
        isLocal \in BOOLEAN, wrapped \in BOOLEAN, init \in ShadowInits,
        assigns \in BOOLEAN, reads \in BOOLEAN }

\* line 3 assigns to a name that no scope has, at the top, in one block, in
\* two blocks or in a function; line 5 reads the name in another block:
\*     [do | do do | function f()]
\*         z = 1 | z = "s"
\*     [end | end end | end]
\*     do y = z end
GlobalAssign(literal) == AssignAt("z", Literal(literal, 42, 3, 8), 40, 3, 4)

GlobalNest(nest, literal) ==
    CASE nest = "top" -> GlobalAssign(literal)
      [] nest = "do" -> Do(<<GlobalAssign(literal)>>, 38, 2, 0, 4)
      [] nest = "do do" -> Do(<<Do(<<GlobalAssign(literal)>>, 39, 2, 3, 4)>>, 38, 2, 0, 4)
      [] nest = "function" ->
            FunctionNode(Ident("f", 8, Loc(2, 9, 2, 10)), FALSE, 0, FALSE, <<GlobalAssign(literal)>>, 0)

GlobalRead == IdentAt("z", 52, 5, 7)

GlobalSibling == Do(<<[AssignAt("y", GlobalRead, 50, 5, 3) EXCEPT !.init = <<GlobalRead>>]>>, 48, 5, 0, 5)

GlobalNests == {"top", "do", "do do", "function"}

GlobalLiterals == {"NumericLiteral", "StringLiteral"}

GlobalScript(nest, literal) == Script(<<GlobalNest(nest, literal), GlobalSibling>>, FALSE)

GlobalScripts == {GlobalScript(nest, literal) : nest \in GlobalNests, literal \in GlobalLiterals}

MaxFields == 3

\* the fields of a table constructor: `a = v`, `v`, `[true] = v`, `[false] = v`,
\* `[nil] = v`, `[7] = v`, `[s] = v` for the string s of line 2, and `[u] = v`
\* for a name u that nothing declares
FieldKinds == {"name", "value", "true", "false", "nil", "number", "typed", "unknown"}

\* the literal that is the value of the k-th field
FieldValues == <<"NumericLiteral", "StringLiteral", "BooleanLiteral">>

\* a literal with the value the parser read
ValueLiteral(type, value, id, line, column) ==
    [type |-> type, id |-> id, loc |-> Loc(line, column, line, column + 1), value |-> value]

FieldKey(kind, id, column) ==
    CASE kind = "true" -> ValueLiteral("BooleanLiteral", TRUE, id, 3, column)
      [] kind = "false" -> ValueLiteral("BooleanLiteral", FALSE, id, 3, column)
      [] kind = "nil" -> Literal("NilLiteral", id, 3, column)
      [] kind = "number" -> ValueLiteral("NumericLiteral", 7, id, 3, column)
      [] kind = "typed" -> IdentAt("s", id, 3, column)
      [] kind = "unknown" -> IdentAt("u", id, 3, column)

\* the k-th field, from column 10 k of line 3
TableField(kind, k, literal) ==
    LET id == 80 + 10 * k
        value == Literal(literal, id + 2, 3, 10 * k + 6)
        loc == Loc(3, 10 * k, 3, 10 * k + 7)
    IN CASE kind = "name" ->
                [type |-> "TableKeyString", id |-> id, loc |-> loc,
                 key |-> IdentAt(ParamNames[k], id + 1, 3, 10 * k), value |-> value]
         [] kind = "value" -> [type |-> "TableValue", id |-> id, loc |-> loc, value |-> value]
         [] OTHER -> [type |-> "TableKey", id |-> id, loc |-> loc,
                      key |-> FieldKey(kind, id + 1, 10 * k + 1), value |-> value]

TableNode(fields) ==
    [type |-> "TableConstructorExpression", id |-> 73, loc |-> Loc(3, 4, 3, 60), fields |-> fields]

\*     s = "s"
\*     t = { <fields> }
TableScript(fields) ==
    Script(<<AssignAt("s", Literal("StringLiteral", 62, 2, 4), 60, 2, 0),
             AssignAt("t", TableNode(fields), 70, 3, 0)>>, FALSE)

\* t = { a = 1, 2, 3, [true] = "x" }
TableExample ==
    TableScript(<<TableField("name", 1, "NumericLiteral"), TableField("value", 2, "NumericLiteral"),
                  TableField("value", 3, "NumericLiteral"), TableField("true", 4, "StringLiteral")>>)

TableScripts ==
    {TableExample} \cup
    { TableScript([k \in 1..n |-> TableField(kinds[k], k, FieldValues[((k - 1) % Len(FieldValues)) + 1])]) :
        <<n, kinds>> \in UNION {{<<m, list>> : list \in [1..m -> FieldKinds]} : m \in 0..MaxFields} }

\* the expressions of the scripts: the literals 1, "x", true and nil, the
\* empty table, the global g of type any and a name u that nothing declares
ExpressionKinds == {"NumericLiteral", "StringLiteral", "BooleanLiteral", "NilLiteral",
                    "TableConstructorExpression", "g", "u"}

Expression(kind, id, line, column) ==
    CASE kind = "TableConstructorExpression" ->
            [type |-> kind, id |-> id, loc |-> Loc(line, column, line, column + 2), fields |-> <<>>]
      [] kind \in {"g", "u"} -> IdentAt(kind, id, line, column)
      [] OTHER -> Literal(kind, id, line, column)

\* `for i = <start>, <end>[, <step>] do end` on line 2; no step is null
ForNode(start, end, step) ==
    [type |-> "ForNumericStatement", id |-> 100, loc |-> Loc(2, 0, 2, 40),
     variable |-> IdentAt("i", 101, 2, 4),
     start |-> Expression(start, 102, 2, 8), end |-> Expression(end, 103, 2, 12),
     step |-> IF step = "" THEN Null ELSE Expression(step, 104, 2, 16),
     body |-> <<>>]

ForScript(start, end, step) == Script(<<ForNode(start, end, step)>>, FALSE)

\* for i=1,"x" do end
ForExample == ForScript("NumericLiteral", "StringLiteral", "")

ForScripts ==
    { ForScript(start, end, step) :
        start \in ExpressionKinds, end \in ExpressionKinds, step \in ExpressionKinds \cup {""} }

MaxArguments == 2

\* the arguments of a call: the expressions, and the tables { x = 1 } and { x = 1, 2 }
ArgumentKinds == ExpressionKinds \cup {"{ x = 1 }", "{ x = 1, 2 }"}

\* an argument on line 5
Argument(kind, id, column) ==
    IF kind \in ExpressionKinds THEN Expression(kind, id, 5, column)
    ELSE [type |-> "TableConstructorExpression", id |-> id, loc |-> Loc(5, column, 5, column + 9),
          fields |->
              <<[type |-> "TableKeyString", id |-> id + 1, loc |-> Loc(5, column + 1, 5, column + 6),
                 key |-> IdentAt("x", id + 2, 5, column + 1),
                 value |-> Literal("NumericLiteral", id + 3, 5, column + 5)]>>
              \o (IF kind = "{ x = 1, 2 }"
                  THEN <<[type |-> "TableValue", id |-> id + 4, loc |-> Loc(5, column + 7, 5, column + 8),
                          value |-> Literal("NumericLiteral", id + 5, 5, column + 7)]>>
                  ELSE <<>>)]

\* `<callee>(<arguments>)` on line 5
CallNode(callee, kinds) ==
    [type |-> "CallStatement", id |-> 110, loc |-> Loc(5, 0, 5, 40),
     expression |->
        [type |-> "CallExpression", id |-> 111, loc |-> Loc(5, 0, 5, 40),
         base |-> IdentAt(callee, 112, 5, 0),
         arguments |-> [k \in 1..Len(kinds) |-> Argument(kinds[k], 110 + 10 * k, 10 * k)]]]

\* the doc comments of f: its parameter a is a number, or a table with an x
CallDocs ==
    { represent(Function(<<Param("a", TNumber)>>, Undefined, TNil), 1),
      represent(Function(<<Param("a", Table(<<Entry("x", TNumber)>>, <<>>, Undefined, Undefined,
                                            Undefined))>>, Undefined, TNil), 1) }

\* the names called: the function f of the script, the function h of the
\* api, whose parameter is of type any, and the global g of type any
Callees == {"f", "h", "g"}

\*     --[[<doc>]]
\*     function f(a)
\*     end
\*     <callee>(<arguments>)
CallScript(doc, callee, kinds) ==
    [type |-> "Chunk", id |-> 1, loc |-> Loc(1, 0, 9, 0),
     comments |-> <<[type |-> "Comment", loc |-> Loc(1, 0, 1, 30), long |-> TRUE, value |-> doc]>>,
     body |-> <<FunctionNode(Ident("f", 8, Loc(2, 9, 2, 10)), FALSE, 1, FALSE, <<>>, 0),
                CallNode(callee, kinds)>>]

CallScripts ==
    { CallScript(doc, callee, kinds) :
        doc \in CallDocs, callee \in Callees,
        kinds \in UNION {[1..n -> ArgumentKinds] : n \in 1..MaxArguments} }

\* the names declared: two plain ones, and one that is a property of a scope object
LocalNames == {"x", "y", "tag"}

\*     local <first> = 1
\*     local <second> = "s"  |  do local <second> = "s" end
LocalScript(first, second, nested, wrapped) ==
    Script(<<Local(first, <<Literal("NumericLiteral", 203, 2, 10)>>, 201, 2, 0),
             IF nested
             THEN Do(<<Local(second, <<Literal("StringLiteral", 213, 3, 13)>>, 211, 3, 3)>>, 210, 3, 0, 3)
             ELSE Local(second, <<Literal("StringLiteral", 213, 3, 13)>>, 211, 3, 3)>>,
           wrapped)

LocalScripts ==
    { LocalScript(first, second, nested, wrapped) :
        first \in LocalNames, second \in LocalNames, nested \in BOOLEAN, wrapped \in BOOLEAN }

\* `::<name>::`
Label(name, id, line, column) ==
    [type |-> "LabelStatement", id |-> id, loc |-> Loc(line, column, line, column + 5),
     label |-> IdentAt(name, id + 1, line, column + 2)]

\* `goto <name>`
Goto(name, id, line, column) ==
    [type |-> "GotoStatement", id |-> id, loc |-> Loc(line, column, line, column + 6),
     label |-> IdentAt(name, id + 1, line, column + 5)]

\* where the label is, seen from the goto of line 3: nowhere, before it in
\* its scope, before the block or the two blocks that it is in, or in a
\* block that ended before it
GotoPlaces == {"none", "same", "outer", "outer outer", "inner"}

\*     ::l::  |  do ::l:: end  |
\*     goto l  |  do goto l end  |  do do goto l end end
GotoScript(place, wrapped) ==
    Script((IF place = "none" THEN <<>>
            ELSE IF place = "inner" THEN <<Do(<<Label("l", 222, 2, 3)>>, 220, 2, 0, 2)>>
            ELSE <<Label("l", 222, 2, 0)>>)
           \o (IF place = "outer" THEN <<Do(<<Goto("l", 232, 3, 3)>>, 230, 3, 0, 3)>>
               ELSE IF place = "outer outer"
               THEN <<Do(<<Do(<<Goto("l", 232, 3, 6)>>, 231, 3, 3, 3)>>, 230, 3, 0, 3)>>
               ELSE <<Goto("l", 232, 3, 0)>>),
           wrapped)

GotoScripts == {GotoScript(place, wrapped) : place \in GotoPlaces, wrapped \in BOOLEAN}

\* what a `return` gives: no statement at all, no value, a number, a
\* string, a number and a string
ReturnKinds == {"none", "empty", "number", "string", "pair"}

\* the values of `return`, `return 1`, `return "s"`, `return 1, "s"`
ReturnValues(kind, id, line, column) ==
    CASE kind = "empty" -> <<>>
      [] kind = "number" -> <<Literal("NumericLiteral", id, line, column)>>
      [] kind = "string" -> <<Literal("StringLiteral", id, line, column)>>
      [] kind = "pair" -> <<Literal("NumericLiteral", id, line, column),
                            Literal("StringLiteral", id + 1, line, column + 3)>>

\* `do return <values> end`, nothing for no statement
DoReturn(kind, id, line) ==
    IF kind = "none" THEN <<>>
    ELSE <<Do(<<[type |-> "ReturnStatement", id |-> id + 1, loc |-> Loc(line, 5, line, 20),
                 arguments |-> ReturnValues(kind, id + 2, line, 12)]>>,
              id, line, 2, line)>>

\* `function <identifier>() <body> end`, `function() <body> end` without identifier
FunctionAt(identifier, body, id, line, column, endLine) ==
    [type |-> "FunctionDeclaration", id |-> id, loc |-> Loc(line, column, endLine, 3),
     identifier |-> identifier, isLocal |-> FALSE, parameters |-> <<>>, body |-> body]

\* `local g = function() return true end`
InnerFunction ==
    Local("g", <<FunctionAt(Undefined,
                    <<[type |-> "ReturnStatement", id |-> 323, loc |-> Loc(4, 23, 4, 34),
                       arguments |-> <<Literal("BooleanLiteral", 324, 4, 30)>>]>>,
                    322, 4, 12, 4)>>,
          320, 4, 2)

\*     function f()
\*       do return <first> end
\*       local g = function() return true end     (when nested)
\*       do return <second> end
\*       do do return <third> end end
\*     end
ReturnScript(first, second, third, nested) ==
    Script(<<FunctionAt(IdentAt("f", 301, 2, 9),
                DoReturn(first, 310, 3)
                \o (IF nested THEN <<InnerFunction>> ELSE <<>>)
                \o DoReturn(second, 330, 5)
                \o (IF third = "none" THEN <<>> ELSE <<Do(DoReturn(third, 350, 6), 340, 6, 2, 6)>>),
                300, 2, 0, 8)>>,
           FALSE)

ReturnScripts ==
    { ReturnScript(first, second, third, nested) :
        first \in ReturnKinds, second \in ReturnKinds, third \in ReturnKinds, nested \in BOOLEAN }

\* how an entry of t is reached: `t.<key>` or `t[<key>]`, the key being a
\* name that the constructor has not (k), one that it has (a), or its first
\* slot (1)
Accesses ==
    [form : {"member"}, key : {"k", "a"}] \cup [form : {"index"}, key : {"k", "a", "1"}]

NoAccess == [form |-> "none", key |-> ""]

\* `t.<key>`, `t["<key>"]` or `t[1]` from column `column`
Access(access, id, line, column) ==
    IF access.form = "member"
    THEN [type |-> "MemberExpression", id |-> id, loc |-> Loc(line, column, line, column + 3),
          indexer |-> ".", base |-> IdentAt("t", id + 1, line, column),
          identifier |-> IdentAt(access.key, id + 2, line, column + 2)]
    ELSE [type |-> "IndexExpression", id |-> id, loc |-> Loc(line, column, line, column + 6),
          base |-> IdentAt("t", id + 1, line, column),
          index |-> [type |-> IF access.key = "1" THEN "NumericLiteral" ELSE "StringLiteral",
                     id |-> id + 2, loc |-> Loc(line, column + 2, line, column + 5),
                     raw |-> access.key]]

\*     t = { a = 1, 2 }
\*     <write> = "s"          (when there is a write)
\*     x = <read>
MemberScript(write, read) ==
    Script(<<AssignAt("t", TableNode(<<TableField("name", 1, "NumericLiteral"),
                                       TableField("value", 2, "NumericLiteral")>>), 70, 3, 0)>>
           \o (IF write = NoAccess THEN <<>>
               ELSE <<[type |-> "AssignmentStatement", id |-> 400, loc |-> Loc(4, 0, 4, 12),
                       variables |-> <<Access(write, 401, 4, 0)>>,
                       init |-> <<Literal("StringLiteral", 405, 4, 10)>>]>>)
           \o <<AssignAt("x", Access(read, 420, 5, 4), 410, 5, 0)>>,
           FALSE)

MemberScripts == {MemberScript(write, read) : write \in Accesses \cup {NoAccess}, read \in Accesses}

Scripts ==
    ShadowScripts \cup GlobalScripts \cup TableScripts \cup ForScripts \cup CallScripts
        \cup LocalScripts \cup GotoScripts \cup ReturnScripts
        \cup MemberScripts

-----------------------------------------------------------------------------
(* The walker as a state machine: a SelfExplore object whose `ast` is a    *)
(* program, reset, then explored.                                          *)

\* the fields of a SelfExplore object as its constructor leaves them, with
\* the heap of scopes
NewSelfExplore ==
    [ast |-> EmptyChunk, aug |-> <<>>, docLineMap |-> <<>>, diagnostics |-> <<>>,
     symbols |-> <<>>, currentSymbol |-> <<>>, lutScopes |-> <<>>, globalScope |-> 1,
     currentScope |-> 0, lutVariables |-> <<>>, lutFunctions |-> <<>>, lutTables |-> <<>>,
     contextStack |-> <<>>, scopes |-> <<GlobalScope>>, threw |-> ""]

\* the definitions read from api/out, and the one of "?"
ApiDefs ==
    << [name |-> "print", type |-> Function(<<Param("str", TString)>>, Undefined, TNil), doc |-> "print"],
       [name |-> "?", type |-> TAny, doc |-> ""] >>

RECURSIVE definesFrom(_, _, _)
definesFrom(scopes, globalScope, defs) ==
    IF defs = <<>> THEN scopes
    ELSE definesFrom(
            SetVariable(scopes, globalScope,
                [name |-> defs[1].name, ranges |-> <<locToRange(Undefined)>>,
                 scopes |-> <<globalScope>>, types |-> <<defs[1].type>>,
                 doc |-> [text |-> defs[1].doc, type |-> defs[1].type]]),
            globalScope, Tail(defs))

\* the definitions of a Document whose api has a function h of one
\* parameter and whose settings pre-define the global `g` with a type that
\* does not parse: its type is 'any'
ScriptDefs ==
    ApiDefs \o <<[name |-> "h", type |-> Function(<<Param("x", TAny)>>, Undefined, TAny), doc |-> "h"],
                 [name |-> "g", type |-> TAny, doc |-> "From pre-defined globals"]>>

\* the walker of such a Document when the script is parsed: reset, then defines()
ScriptWalker(program) ==
    [reset(NewSelfExplore) EXCEPT
        !.ast = program,
        !.scopes = definesFrom(@, reset(NewSelfExplore).globalScope, ScriptDefs)]

InitWalk ==
    /\ \E program \in Programs \cup Scripts :
          walk = IF program \in Scripts THEN ScriptWalker(program)
                 ELSE [reset(NewSelfExplore) EXCEPT !.ast = program]
    /\ wstage = "parsed"

IdleWalk == walk = NewSelfExplore /\ wstage = "idle"

\* this.explore()
Explore ==
    /\ wstage = "parsed"
    /\ walk' = explore(walk)
    /\ wstage' = "explored"
    /\ UNCHANGED <<typeVars, sessionVars, queryVars>>

NextWalk == Explore

-----------------------------------------------------------------------------
(* documents.ts: Document.  The objects live in a heap: `docs` the         *)
(* Document objects, `luts` the four LUT objects that backup, reset and    *)
(* restore always handle together, `scopes` the scope objects.  A Document *)
(* holds its LUTs and its backup as indexes into `luts`.                   *)

EmptyLuts == [lutVariables |-> <<>>, lutScopes |-> <<>>, lutFunctions |-> <<>>, lutTables |-> <<>>]

\* new Document(uri, manager): the field initialisers of SelfExplore and Document
NewDocument(heap) ==
    [heap EXCEPT
        !.docs = Append(@, [ast |-> EmptyChunk, aug |-> <<>>, docLineMap |-> <<>>,
                            diagnostics |-> <<>>, symbols |-> <<>>, currentSymbol |-> <<>>,
                            globalScope |-> Len(heap.scopes) + 1, currentScope |-> 0,
                            contextStack |-> <<>>, includes |-> <<>>,
                            lut |-> Len(heap.luts) + 1, lutBackup |-> 0]),
        !.luts = Append(@, EmptyLuts),
        !.scopes = Append(@, GlobalScope)]

\* the SelfExplore part of Document d, as the walker takes it
This(heap, d) ==
    LET doc == heap.docs[d]
        lut == heap.luts[doc.lut]
    IN [ast |-> doc.ast, aug |-> doc.aug, docLineMap |-> doc.docLineMap,
        diagnostics |-> doc.diagnostics, symbols |-> doc.symbols,
        currentSymbol |-> doc.currentSymbol, lutScopes |-> lut.lutScopes,
        globalScope |-> doc.globalScope, currentScope |-> doc.currentScope,
        lutVariables |-> lut.lutVariables, lutFunctions |-> lut.lutFunctions,
        lutTables |-> lut.lutTables, contextStack |-> doc.contextStack,
        scopes |-> heap.scopes, threw |-> ""]

\* the heap once the walker's state w is that of Document d, whose LUTs are
\* the objects at `lut`
Assign(heap, d, lut, w) ==
    [heap EXCEPT
        !.docs[d] = [@ EXCEPT !.ast = w.ast, !.aug = w.aug, !.docLineMap = w.docLineMap,
                              !.diagnostics = w.diagnostics, !.symbols = w.symbols,
                              !.currentSymbol = w.currentSymbol, !.globalScope = w.globalScope,
                              !.currentScope = w.currentScope, !.contextStack = w.contextStack,
                              !.lut = lut],
        !.luts = [k \in 1..Max2(Len(heap.luts), lut) |->
                    IF k = lut THEN [lutVariables |-> w.lutVariables, lutScopes |-> w.lutScopes,
                                     lutFunctions |-> w.lutFunctions, lutTables |-> w.lutTables]
                    ELSE heap.luts[k]],
        !.scopes = w.scopes]

\* storing a simple reference to the old tables
backup(heap, d) == [heap EXCEPT !.docs[d].lutBackup = heap.docs[d].lut]

\* a restore that leaves the tables of the reset in place
restoreNothing(heap, d) == heap

restore(heap, d) == [heap EXCEPT !.docs[d].lut = heap.docs[d].lutBackup]

\* Document inherits reset: the LUTs are new objects
resetDocument(heap, d) == Assign(heap, d, Len(heap.luts) + 1, reset(This(heap, d)))

\* the callback of readdir in defines(): every definition is written to
\* what this.globalScope is then; the settings name no pre-defined globals
defines(heap, d) ==
    [heap EXCEPT !.scopes = definesFrom(@, heap.docs[d].globalScope, ApiDefs)]

\* parseLua is the pico8parse library: a text is given by what the parser
\* makes of it, an AST or a syntax error with its line and column
parseLua(text) == IF text.error = Undefined THEN text.ast ELSE Thrown("ParseError")

\* str.slice(a, b): a negative start counts from the end
slice(s, a, b) ==
    LET a1 == IF a < 0 THEN Max2(Len(s) + a, 0) ELSE Min2(a, Len(s))
        b1 == IF b < 0 THEN Max2(Len(s) + b, 0) ELSE Min2(b, Len(s))
    IN IF a1 >= b1 THEN <<>> ELSE SubSeq(s, a1 + 1, b1)

\* the backquote character
BQ == "backquote"

\* "pico-8 cartridge", character by character
Header == <<"p", "i", "c", "o", "-", "8", " ", "c", "a", "r", "t", "r", "i", "d", "g", "e">>

\* what readFileSync(path) makes: the content of the file, or an error
File(content) == [k |-> "file", content |-> content]

Unreadable == Thrown("ENOENT")

\* the tooltip of the link of an #include directive, from what the file
\* read contains, character by character; the name of the file is in no
\* quotes or brackets
includeTooltip(file, path) ==
    LET content == file.content
        p == indexOf(content, "p")
        n == indexOf(content, "\n")
        h == Header
        hasValidHeader == p < n /\ slice(content, p, p + Len(h)) # h
    IN IF IsThrown(file) THEN <<"could not read file", " (make sure '", path, "' is accessible)">>
       ELSE IF hasValidHeader THEN <<"PICO-8 include (includes ", BQ, "__lua__", BQ, " sections)">>
       ELSE <<"raw include (includes the whole file)">>

\* the callback of the replace over the text: one entry of this.includes
\* for the directive of the text, if it has one
includesOf(text, file) ==
    IF text.include = Undefined THEN <<>>
    ELSE <<[directive |-> <<"#include ", text.include.filename, "\n">>,
            line |-> text.include.line,
            target |-> <<"baseUri", "/", text.include.filename>>,
            tooltip |-> includeTooltip(file, <<"baseUri", "/", text.include.filename>>),
            range |-> [start |-> Pos(text.include.line, 9),
                       end |-> Pos(text.include.line, 9 + text.include.length)]]>>

\* the diagnostics of the directives: an error for a file that cannot be
\* read; no file read is longer than 65536 characters
includesDiagnosticsOf(text, file) ==
    IF text.include # Undefined /\ IsThrown(file)
    THEN <<[message |-> includesOf(text, file)[1].tooltip, range |-> includesOf(text, file)[1].range,
            severity |-> "Error"]>>
    ELSE <<>>

\* the hint pushed to includesDiagnostics
VersionHint ==
    [message |-> "assuming version", range |-> [start |-> Pos(0, 0), end |-> Pos(0, 16)],
     severity |-> "Hint"]

\* what handleOnDidChangeContent returns past the try statement
changeReturn(heap, d, level, includesDiagnostics) ==
    IF level = "no diagnostics" THEN Null
    ELSE includesDiagnostics \o <<VersionHint>> \o heap.docs[d].diagnostics

\* handleOnDidChangeContent from the settings to `await this.defines()`
changeParse(heap, d, text, file, level) ==
    LET h0 == [heap EXCEPT !.docs[d].includes = includesOf(text, file)]
        h1 == resetDocument(backup(h0, d), d)
        ast == parseLua(text)
        at == Pos(text.error.line - 1, text.error.column)
        h2 == [restore(h1, d) EXCEPT !.docs[d].diagnostics =
                  Append(@, [message |-> "SyntaxError", range |-> [start |-> at, end |-> at]])]
    IN IF level = "only coloration" THEN [heap |-> h0, pc |-> "returned", result |-> Null]
       ELSE IF ast = Thrown("ParseError")
            THEN [heap |-> h2, pc |-> "returned",
                  result |-> changeReturn(h2, d, level, includesDiagnosticsOf(text, file))]
       ELSE [heap |-> [h1 EXCEPT !.docs[d].ast = ast], pc |-> "defines", result |-> Undefined]

\* handleOnDidChangeContent from the callback of readdir to its end: the
\* definitions are written, the promise resolves, explore runs; an error
\* that is no ParseError is thrown again after restore
changeExplore(heap, d, level, includesDiagnostics) ==
    LET end(h2, threw) ==
            IF threw # "" THEN [heap |-> restore(h2, d), pc |-> "threw", result |-> Thrown(threw)]
            ELSE [heap |-> h2, pc |-> "returned",
                  result |-> changeReturn(h2, d, level, includesDiagnostics)]
        walked(h1, w) == end(Assign(h1, d, h1.docs[d].lut, w), w.threw)
        defined(h1) == walked(h1, explore(This(h1, d)))
    IN defined(defines(heap, d))

findVariable(heap, d, position) ==
    Get(heap.luts[heap.docs[d].lut].lutVariables, <<position.line, position.character>>)

\* the smallest scope containing the position: the search goes backward
findScope(heap, d, position) ==
    LET lutScopes == heap.luts[heap.docs[d].lut].lutScopes
        hits == {k \in 1..Len(lutScopes) : rangeContains(lutScopes[k].range, position)}
    IN IF hits # {} THEN lutScopes[CHOOSE k \in hits : \A j \in hits : j <= k]
       ELSE IF lutScopes # <<>> THEN lutScopes[1]
       ELSE Undefined

\* a lookup at the position itself, as that of the tables
findFunctionAtPosition(heap, d, position) ==
    Get(heap.luts[heap.docs[d].lut].lutFunctions, <<position.line, position.character>>)

findFunction(heap, d, position) ==
    Get(heap.luts[heap.docs[d].lut].lutFunctions, <<position.line, position.character - 1>>)

\* the lines of the markdown: "(tag) name: type", and the text of the doc
representVariableHover(tag, name, type, doc) ==
    [tag |-> tag, name |-> name, type |-> represent(type, 1),
     doc |-> IF Truthy(doc) THEN doc.text ELSE Undefined]

handleOnHover(heap, d, position) ==
    LET found == findVariable(heap, d, position)
    IN IF ~Truthy(found) THEN Null
       ELSE [contents |-> representVariableHover(heap.scopes[found.scope].tag, found.name,
                                                 found.type, found.doc)]

handleOnDocumentSymbol(heap, d) == heap.docs[d].symbols

RECURSIVE VisibleNames(_, _, _)
\* `for (const label in scope.variables)`: the own names, then those of the
\* prototype chain that none before shadows
VisibleNames(scopes, scope, seen) ==
    IF scope = 0 THEN <<>>
    ELSE LET own == SelectSeq([i \in 1..Len(scopes[scope].variables) |-> scopes[scope].variables[i].name],
                              LAMBDA n : n \notin seen)
         IN own \o VisibleNames(scopes, scopes[scope].parent, seen \cup {own[i] : i \in 1..Len(own)})

\* a completion that no trigger character asked for
handleOnCompletion(heap, d, position) ==
    LET found == findScope(heap, d, position)
        labels == VisibleNames(heap.scopes, found.scope, {})
    IN IF ~Truthy(found) THEN Null
       ELSE [list |-> [i \in 1..Len(labels) |->
                [label |-> labels[i],
                 recent |-> ScopeVariable(heap.scopes, found.scope, labels[i]).ranges[1].start]]]

handleOnDocumentHighlight(heap, d, position) ==
    LET variable == findVariable(heap, d, position)
        reference == IF Truthy(variable)
                     THEN ScopeVariable(heap.scopes, variable.scope, variable.name)
                     ELSE Undefined
    IN IF ~Truthy(reference) THEN Null ELSE [ranges |-> reference.ranges]

\* the signature help of a position where no identifier is before the cursor
handleOnSignatureHelp(heap, d, position) ==
    LET fun == findFunction(heap, d, position)
    IN IF ~Truthy(fun) THEN Null
       ELSE [label |-> represent(fun.type, 1),
             parameters |-> [i \in 1..Len(fun.type.parameters) |->
                 [label |-> fun.type.parameters[i].name,
                  documentation |-> represent(ParamType(fun.type, i), 1)]]]

-----------------------------------------------------------------------------
(* The session as a state machine: the DocumentsManager of one uri.  A     *)
(* content change runs in three steps, cut where its handler awaits: up to *)
(* the settings, from the settings to defines(), and from the callback of  *)
(* readdir to the end, the manager's `cache.set` and `sendDiagnostics`     *)
(* included.  A query runs in one step.                                    *)

MaxChanges == 3

\* the changes that may be suspended at an await at once
MaxInFlight == 2

\* `x = function(a) end` under the doc comment `(a: number) -> number`
AnonymousText ==
    [ast |-> Program(Assignment("x", FunctionNode(Undefined, FALSE, 1, FALSE, <<>>, 4)),
                     represent(Function(<<Param("a", TNumber)>>, Undefined, TNumber), 1)),
     error |-> Undefined, include |-> Undefined]

\* `function f(a) return a end` under the doc comment `() -> nil`
FewerText ==
    [ast |-> Program(FunctionNode(Ident("f", 8, Loc(2, 9, 2, 10)), FALSE, 1, FALSE,
                                  <<Return(<<Ident("a", 5, Loc(3, 9, 3, 10))>>)>>, 0),
                     represent(Function(<<>>, Undefined, TNil), 1)),
     error |-> Undefined, include |-> Undefined]

\* the same with `#include lib.p8` on the line after the function
IncludeText == [FewerText EXCEPT !.include = [filename |-> "lib.p8", length |-> 6, line |-> 4]]

\* a text the parser rejects at line 2, column 5
BrokenText == [ast |-> Undefined, error |-> [line |-> 2, column |-> 5], include |-> Undefined]

\* a cartridge: the header on the first line, then a __lua__ section
CartridgeFile ==
    Header \o <<" ", "/", "/", "\n", "_", "_", "l", "u", "a", "_", "_", "\n", "x", "=", "1", "\n">>

\* a cartridge whose first line has the header after two dashes
CommentedCartridgeFile == <<"-", "-">> \o CartridgeFile

\* `print(1)`
PrintFile == <<"p", "r", "i", "n", "t", "(", "1", ")", "\n">>

\* `x=1`
AssignFile == <<"x", "=", "1", "\n">>

\* `x=1` and `print(x)` on two lines
TwoLinesFile == <<"x", "=", "1", "\n">> \o PrintFile

\* what lib.p8 may hold when it is read
Contents == {CartridgeFile, CommentedCartridgeFile, PrintFile, AssignFile, TwoLinesFile, <<>>}

Files == {File(content) : content \in Contents} \cup {Unreadable}

Texts == {AnonymousText, FewerText, BrokenText}

Levels == {"all", "no diagnostics", "only coloration"}

\* where the queries ask: at `x`, and past the `end` of the function
Positions == {Pos(1, 0), Pos(3, 5)}

NoAnswer == [kind |-> "none"]

\* the calls on Document d that are suspended at an await
InFlight(d) == {c \in 1..Len(calls) : calls[c].doc = d /\ calls[c].pc \in {"settings", "defines"}}

\* what each LUT query returns on Document d, by handler and position
Answers(h, d) ==
    [position \in Positions |->
        [hover |-> handleOnHover(h, d, position),
         completion |-> handleOnCompletion(h, d, position),
         highlight |-> handleOnDocumentHighlight(h, d, position),
         signature |-> handleOnSignatureHelp(h, d, position)]]

\* the record of Document d once a walk of it has finished
Walked(h, d, overlapped) ==
    [luts |-> h.luts[h.docs[d].lut], symbols |-> h.docs[d].symbols,
     answers |-> Answers(h, d), last |-> "walked", overlapped |-> overlapped]

InitSession ==
    /\ store = [docs |-> <<>>, luts |-> <<>>, scopes |-> <<>>]
    /\ cache = 0
    /\ calls = <<>>
    /\ dontBother \in Levels
    /\ answer = NoAnswer
    /\ good = <<>>

IdleQuery == query = [pc |-> "idle"]

IdleSession ==
    /\ IdleQuery
    /\ store = [docs |-> <<>>, luts |-> <<>>, scopes |-> <<>>]
    /\ cache = 0
    /\ calls = <<>>
    /\ dontBother = "all"
    /\ answer = NoAnswer
    /\ good = <<>>

\* the manager's handleOnDidChangeContent up to the handler's first await
StartChange ==
    /\ Len(calls) < MaxChanges
    /\ Cardinality({c \in 1..Len(calls) : calls[c].pc \in {"settings", "defines"}}) < MaxInFlight
    /\ LET d == IF cache = 0 THEN Len(store.docs) + 1 ELSE cache
           h == IF cache = 0 THEN NewDocument(store) ELSE store
       IN /\ store' = h
          /\ calls' = Append(calls, [doc |-> d, pc |-> "settings", text |-> Undefined,
                                     result |-> Undefined, includesDiagnostics |-> <<>>, overlaps |-> InFlight(d) # {}])
          /\ good' = IF cache = 0 THEN Append(good, [Walked(h, d, FALSE) EXCEPT !.last = "none"])
                     ELSE [good EXCEPT ![d].overlapped = @ \/ InFlight(d) # {}]
    /\ answer' = NoAnswer
    /\ UNCHANGED <<cache, dontBother, typeVars, walkVars, queryVars>>

\* the settings arrive: the text is read, parsed, and defines() is called
ReadText(c, text, file) ==
    /\ calls[c].pc = "settings"
    /\ LET d == calls[c].doc
            r == changeParse(store, d, text, file, dontBother)
        IN /\ store' = r.heap
           /\ calls' = [calls EXCEPT ![c].pc = r.pc, ![c].text = text, ![c].result = r.result,
                                     ![c].includesDiagnostics = includesDiagnosticsOf(text, file)]
           /\ cache' = IF r.pc = "returned" THEN d ELSE cache
           /\ good' = IF parseLua(text) = Thrown("ParseError") /\ dontBother # "only coloration"
                      THEN [good EXCEPT ![d].last = "syntax"]
                      ELSE good
    /\ answer' = NoAnswer
    /\ UNCHANGED <<dontBother, typeVars, walkVars, queryVars>>

\* a text without a directive: no file is read
AfterSettings(c) == \E text \in Texts : ReadText(c, text, Unreadable)

\* a text with a directive, and what lib.p8 holds when it is read
AfterSettingsInclude(c) == \E file \in Files : ReadText(c, IncludeText, file)

\* readdir calls back: the definitions are written and the walk runs; the
\* manager caches the Document and sends the diagnostics unless the handler threw
AfterDefines(c) ==
    /\ calls[c].pc = "defines"
    /\ LET d == calls[c].doc
           Continue(r) ==
              /\ store' = r.heap
              /\ calls' = [calls EXCEPT ![c].pc = r.pc, ![c].result = r.result]
              /\ cache' = IF r.pc = "returned" THEN d ELSE cache
              /\ good' = IF r.pc = "returned"
                         THEN [good EXCEPT ![d] = Walked(r.heap, d, good[d].overlapped)]
                         ELSE [good EXCEPT ![d].last = "threw"]
       IN Continue(changeExplore(store, d, dontBother, calls[c].includesDiagnostics))
    /\ answer' = NoAnswer
    /\ UNCHANGED <<dontBother, typeVars, walkVars, queryVars>>

\* a query of the manager: null without a cached Document
Query(kind, position, result) ==
    /\ answer' = [kind |-> kind, position |-> position,
                  result |-> IF cache = 0 THEN Null ELSE result,
                  midWalk |-> \E c \in 1..Len(calls) : calls[c].doc = cache /\ calls[c].pc = "defines"]
    /\ UNCHANGED <<store, cache, calls, dontBother, good, typeVars, walkVars, queryVars>>

Hover == \E position \in Positions :
    Query("hover", position, IF cache = 0 THEN Null ELSE handleOnHover(store, cache, position))

DocumentSymbol ==
    Query("symbols", Pos(0, 0),
          IF cache = 0 THEN Null ELSE [symbols |-> handleOnDocumentSymbol(store, cache)])

Completion == \E position \in Positions :
    Query("completion", position, IF cache = 0 THEN Null ELSE handleOnCompletion(store, cache, position))

DocumentHighlight == \E position \in Positions :
    Query("highlight", position,
          IF cache = 0 THEN Null ELSE handleOnDocumentHighlight(store, cache, position))

SignatureHelp == \E position \in Positions :
    Query("signature", position,
          IF cache = 0 THEN Null ELSE handleOnSignatureHelp(store, cache, position))

\* a change that arrives when no other is in flight
StartChangeAlone ==
    /\ \A c \in 1..Len(calls) : calls[c].pc \in {"returned", "threw"}
    /\ StartChange

\* the changes one at a time
NextSequential ==
    \/ StartChangeAlone
    \/ \E c \in 1..Len(calls) : AfterSettings(c)
    \/ \E c \in 1..Len(calls) : AfterSettingsInclude(c)
    \/ \E c \in 1..Len(calls) : AfterDefines(c)
    \/ Hover
    \/ DocumentSymbol
    \/ Completion
    \/ DocumentHighlight
    \/ SignatureHelp

NextSession ==
    \/ StartChange
    \/ \E c \in 1..Len(calls) : AfterSettings(c)
    \/ \E c \in 1..Len(calls) : AfterDefines(c)
    \/ Hover
    \/ DocumentSymbol
    \/ Completion
    \/ DocumentHighlight
    \/ SignatureHelp

-----------------------------------------------------------------------------
(* The types the type algebra is exercised on: every kind of LuaType, built *)
(* from the atoms and nested MaxTypeDepth deep.                             *)

MaxTypeDepth == 2

AtomTypes == {TNumber, TString}

\* every kind of type with `a` as a component
Compose(a) ==
    { Tuple(<<a>>), Tuple(<<a, TString>>),
      Function(<<>>, Undefined, a), Function(<<Param("a", a)>>, TNumber, TNil),
      Table(<<Entry("x", a)>>, <<>>, Undefined, Undefined, Undefined),
      Table(<<>>, <<Entry(1, a)>>, Undefined, Undefined, Undefined),
      Table(<<>>, <<Entry(1, a), Entry(2, TNumber)>>, Undefined, Undefined, Undefined),
      Table(<<>>, <<>>, a, Undefined, Undefined),
      Table(<<>>, <<>>, Undefined, Undefined, Typed(<<Entry("number", a)>>)),
      Table(<<>>, <<Entry(1, a)>>, Undefined, Undefined, Typed(<<Entry("number", TNumber)>>)),
      Union(a, TNumber), Union(a, TString), Union(TNumber, a) }

\* the function simplify builds from one with a compound parameter: the
\* parameter's type is the function itself
Circular == Function(<<Param("a", Self)>>, Undefined, TNil)

\* the types without a component
Leaves ==
    { Tuple(<<>>), EmptyTable, Circular,
      Function(<<>>, Undefined, TNil), Function(<<>>, TNumber, TNil),
      Table(<<Entry("2d", TNumber)>>, <<>>, Undefined, Undefined, Undefined),
      Table(<<>>, <<>>, Undefined, TString, Undefined),
      Table(<<>>, <<>>, Undefined, Undefined, Typed(<<Entry("string", TNumber)>>)) }

\* the nestings used below the first level
Nest(a) ==
    { Tuple(<<a>>), Function(<<>>, Undefined, a), Function(<<Param("a", a)>>, Undefined, TNil),
      Table(<<Entry("x", a)>>, <<>>, Undefined, Undefined, Undefined),
      Union(a, TString), Union(TNumber, a) }

RECURSIVE NewTypes(_)
\* the types that are exactly d deep
NewTypes(d) ==
    IF d = 0 THEN AtomTypes
    ELSE IF d = 1 THEN Leaves \cup UNION {Compose(a) : a \in AtomTypes}
    ELSE UNION {Nest(a) : a \in NewTypes(d - 1)}

Types == UNION {NewTypes(d) : d \in 0..MaxTypeDepth}

\* a union with its two members the other way round; any other type as it is
Swapped(type) == IF HasOwnOr(type) THEN Union(type.or[2], type.or[1]) ELSE type

\* a second object to compare a type with: one of the same structure, the
\* reordered one, and one of each compound kind
Peers(type) == {type, Swapped(type), EmptyTable, Function(<<>>, Undefined, TNil)}

-----------------------------------------------------------------------------
(* The type algebra as a state machine: one call per step on the inputs.   *)

InitTypes ==
    /\ argA \in Types
    /\ argB \in Peers(argA)
    /\ tstage = "input"
    /\ outRepresent = <<>>
    /\ outParse = Undefined
    /\ outSimplify = Undefined
    /\ outSimplify2 = Undefined
    /\ outEquivalent = "none"

\* represent(argA)
DoRepresent ==
    /\ tstage = "input"
    /\ outRepresent' = represent(argA, 1)
    /\ tstage' = "represented"
    /\ UNCHANGED <<argA, argB, outParse, outSimplify, outSimplify2, outEquivalent, walkVars, sessionVars, queryVars>>

\* parse(represent(argA))
DoParse ==
    /\ tstage = "represented"
    /\ outParse' = parse(outRepresent)
    /\ tstage' = "parsed"
    /\ UNCHANGED <<argA, argB, outRepresent, outSimplify, outSimplify2, outEquivalent, walkVars, sessionVars, queryVars>>

\* simplify(argA)
DoSimplify ==
    /\ tstage = "parsed"
    /\ outSimplify' = simplify(argA, 1)
    /\ tstage' = "simplified"
    /\ UNCHANGED <<argA, argB, outRepresent, outParse, outSimplify2, outEquivalent, walkVars, sessionVars, queryVars>>

\* simplify(simplify(argA)): the outer call is not made when the inner one threw
DoSimplifyAgain ==
    /\ tstage = "simplified"
    /\ outSimplify2' = IF IsThrown(outSimplify) THEN outSimplify ELSE simplify(outSimplify, 1)
    /\ tstage' = "resimplified"
    /\ UNCHANGED <<argA, argB, outRepresent, outParse, outSimplify, outEquivalent, walkVars, sessionVars, queryVars>>

\* equivalent(argA, argB)
DoEquivalent ==
    /\ tstage = "resimplified"
    /\ outEquivalent' = equivalent(argA, argB, 1)
    /\ tstage' = "compared"
    /\ UNCHANGED <<argA, argB, outRepresent, outParse, outSimplify, outSimplify2, walkVars, sessionVars, queryVars>>

NextTypes == DoRepresent \/ DoParse \/ DoSimplify \/ DoSimplifyAgain \/ DoEquivalent

IdleTypes ==
    /\ argA = Undefined /\ argB = Undefined /\ tstage = "idle"
    /\ outRepresent = Undefined /\ outParse = Undefined /\ outSimplify = Undefined
    /\ outSimplify2 = Undefined /\ outEquivalent = Undefined

-----------------------------------------------------------------------------
(* The type graphs the recursion guards are exercised on: up to MaxNodes   *)
(* objects, every field of which is an atom or a reference to one of them. *)

MaxNodes == 2

Slots(n) == {TNumber} \cup {Ref(i) : i \in 1..n}

\* the objects with fields from S
Shapes(S) ==
    {Table(<<Entry("t", x)>>, <<>>, Undefined, Undefined, Undefined) : x \in S}
    \cup {Table(<<Entry("a", x), Entry("b", y)>>, <<>>, Undefined, Undefined, Undefined) : x \in S, y \in S}
    \cup {Table(<<>>, <<Entry(1, x), Entry(2, y)>>, Undefined, Undefined, Undefined) : x \in S, y \in S}
    \cup {Table(<<>>, <<>>, x, Undefined, Undefined) : x \in S}
    \cup {Function(<<Param("a", x)>>, Undefined, y) : x \in S, y \in S}
    \cup {Function(<<>>, x, TNil) : x \in S}
    \cup {Tuple(<<x>>) : x \in S}
    \cup {Tuple(<<x, y>>) : x \in S, y \in S}
    \cup {Union(x, y) : x \in S, y \in S}

\* the objects a value refers to in one step: every field, or the members of
\* a union alone
Fields(node, orOnly) ==
    LET values ==
            IF HasOwnOr(node) THEN {node.or[1], node.or[2]}
            ELSE IF orOnly THEN {}
            ELSE IF IsArray(node) THEN {node.items[i] : i \in 1..Len(node.items)}
            ELSE IF node.k = "fn"
            THEN {node.parameters[i].type : i \in 1..Len(node.parameters)} \cup {node.vararg, node.return}
            ELSE {node.entries[i].type : i \in 1..Len(node.entries)}
                 \cup {node.sequence[i].type : i \in 1..Len(node.sequence)} \cup {node.true, node.false}
    IN {v.at : v \in {w \in values : IsRef(w)}}

RECURSIVE Reach(_, _, _, _)
\* the objects reached from those of `from` in at most `steps` further steps
Reach(h, from, orOnly, steps) ==
    IF steps = 0 THEN from
    ELSE Reach(h, from \cup UNION {Fields(h[i], orOnly) : i \in from}, orOnly, steps - 1)

\* object i can be reached from itself
OnCycle(h, i, orOnly) == i \in Reach(h, Fields(h[i], orOnly), orOnly, Len(h))

\* the walker builds every union as a new object over existing members
\* (explore.ts:428-437, 898-902), so no union is a member of itself
Graphs ==
    {h \in UNION {[1..n -> Shapes(Slots(n))] : n \in 1..MaxNodes} :
        \A i \in 1..Len(h) : ~OnCycle(h, i, TRUE)}

InitGraphs ==
    /\ argA \in {[heap |-> h, root |-> Ref(1)] : h \in Graphs}
    /\ argB = Ref(Len(argA.heap))
    /\ tstage = "graph"
    /\ outRepresent = Undefined
    /\ outParse = Undefined
    /\ outSimplify = Undefined
    /\ outSimplify2 = Undefined
    /\ outEquivalent = Undefined

\* represent(root)
DoRepresentGraph ==
    /\ tstage = "graph"
    /\ outRepresent' = representGraph(argA.heap, argA.root, 1, Undefined)
    /\ tstage' = "graph represented"
    /\ UNCHANGED <<argA, argB, outParse, outSimplify, outSimplify2, outEquivalent, walkVars, sessionVars, queryVars>>

\* simplify(root)
DoSimplifyGraph ==
    /\ tstage = "graph represented"
    /\ outSimplify' = simplifyGraph(argA.heap, argA.root, 1, Undefined, Undefined)
    /\ tstage' = "graph simplified"
    /\ UNCHANGED <<argA, argB, outRepresent, outParse, outSimplify2, outEquivalent, walkVars, sessionVars, queryVars>>

\* equivalent(root, other)
DoEquivalentGraph ==
    /\ tstage = "graph simplified"
    /\ outEquivalent' = equivalentGraph(argA.heap, argA.root, argB, 1)
    /\ tstage' = "graph compared"
    /\ UNCHANGED <<argA, argB, outRepresent, outParse, outSimplify, outSimplify2, walkVars, sessionVars, queryVars>>

NextGraphs == DoRepresentGraph \/ DoSimplifyGraph \/ DoEquivalentGraph

InitOfTypes == InitTypes /\ IdleWalk /\ IdleSession

\* the type algebra on its own
SpecTypes == InitOfTypes /\ [][NextTypes]_vars

InitOfGraphs == InitGraphs /\ IdleWalk /\ IdleSession

\* the type algebra on type graphs
SpecGraphs == InitOfGraphs /\ [][NextGraphs]_vars

InitOfWalk == InitWalk /\ IdleTypes /\ IdleSession

\* the walker on its own
SpecWalk == InitOfWalk /\ [][NextWalk]_vars

Init == InitSession /\ IdleTypes /\ IdleWalk /\ IdleQuery

\* the session with one change at a time
SpecSequential == Init /\ [][NextSequential]_vars

\* the session
Spec == Init /\ [][NextSession]_vars

-----------------------------------------------------------------------------
(* documents.ts: the query handlers of a Document, the two with a loop one *)
(* iteration at a time.  The Document has been walked; a handler is called *)
(* with what the manager passes: a position, the word before the cursor,   *)
(* and whether a trigger character asked for the completion.               *)

\* scope.scope.variables[identifier]: through the prototype chain of the
\* scopes, which ends in Object.prototype
variablesAt(heap, scope, identifier) ==
    LET variable == ScopeVariable(heap.scopes, scope, identifier)
    IN IF Truthy(variable) THEN variable
       ELSE IF identifier \in ObjectPrototypeNames THEN Builtin
       ELSE Undefined

findTable(heap, d, position) ==
    Get(heap.luts[heap.docs[d].lut].lutTables, <<position.line, position.character>>)

\* a call that has returned, and one that threw
Returned(q, result) == [q EXCEPT !.pc = "returned", !.result = result]

Threw(q, name) == [q EXCEPT !.pc = "threw", !.result = Thrown(name)]

\* the fields of a table as completion items
fieldItems(found) ==
    IF IsArray(found) THEN <<>>
    ELSE [i \in 1..Len(found.entries) |->
            [label |-> found.entries[i].key, kind |-> "Field",
             detail |-> represent(found.entries[i].type, 1)]]

\* the signature of a function
signatureOf(found) ==
    [label |-> represent(found, 1),
     parameters |-> [i \in 1..Len(found.parameters) |->
         [label |-> found.parameters[i].name,
          documentation |-> represent(ParamType(found, i), 1)]]]

\* a handler up to its loop over the ranges of the variable named by the
\* identifier, with `k = 0` and `f = false`
loopEnter(heap, d, q) ==
    LET scope == findScope(heap, d, q.position)
        variable == variablesAt(heap, scope.scope, q.identifier)
    IN IF ~Truthy(scope) THEN Returned(q, Null)
       ELSE IF ~Truthy(variable) THEN Returned(q, Null)
       ELSE [q EXCEPT !.pc = "loop", !.variable = variable, !.k = 0, !.f = FALSE]

\* f = it.line <= position.line && it.character <= position.character
startsBefore(q) ==
    LET it == q.variable.ranges[q.k + 1].start
    IN it.line <= q.position.line /\ it.character <= q.position.character

\* handleOnCompletion up to its loop, or to its end
completionCall(heap, d, q) ==
    LET table == findTable(heap, d, q.position)
    IN IF q.trigger
       THEN IF q.identifier # "" THEN loopEnter(heap, d, q)
            ELSE IF ~Truthy(table) THEN Returned(q, Null)
            ELSE Returned(q, fieldItems(table.type))
       ELSE Returned(q, handleOnCompletion(heap, d, q.position))

\* one evaluation of `while (k < variable.ranges.length)` and of its body in
\* handleOnCompletion, which ends in `k++`
completionLoop(q) ==
    IF q.variable = Builtin THEN Threw(q, "TypeError")
    ELSE IF ~(q.k < Len(q.variable.ranges)) THEN Returned(q, Null)
    ELSE IF ~q.f THEN [q EXCEPT !.f = startsBefore(q), !.k = @ + 1]
    ELSE IF isLuaTable(q.variable.types[q.k + 1]) THEN Returned(q, fieldItems(q.variable.types[q.k + 1]))
    ELSE [q EXCEPT !.k = @ + 1]

\* handleOnSignatureHelp up to its loop, or to its end
signatureCall(heap, d, q) ==
    IF q.identifier # "" /\ q.identifier # ")" THEN loopEnter(heap, d, q)
    ELSE Returned(q, handleOnSignatureHelp(heap, d, q.position))

\* one evaluation of `while (k < variable.ranges.length)` and of its body in
\* handleOnSignatureHelp, where `const k = 0`
signatureLoop(q) ==
    IF q.variable = Builtin THEN Threw(q, "TypeError")
    ELSE IF ~(q.k < Len(q.variable.ranges)) THEN Returned(q, Null)
    ELSE IF ~q.f THEN [q EXCEPT !.f = startsBefore(q)]
    ELSE IF isLuaFunction(q.variable.types[q.k + 1]) THEN Returned(q, signatureOf(q.variable.types[q.k + 1]))
    ELSE q

\* an item without data, or one of a completion list
handleOnCompletionResolve(heap, d, item) ==
    LET found == findVariable(heap, d, item.recent)
        type == IF Truthy(found.doc) /\ Truthy(found.doc.type) THEN found.doc.type ELSE found.type
    IN IF ~Truthy(item.recent) THEN Null
       ELSE IF ~Truthy(found) THEN Null
       ELSE [label |-> item.label,
             kind |-> IF isLuaFunction(type) THEN "Function"
                      ELSE IF isLuaTable(type) THEN "Class" ELSE "Variable",
             detail |-> represent(type, 1),
             documentation |-> IF Truthy(found.doc) THEN found.doc.text ELSE Undefined]

\* the texts of the Documents queried:
\*     --[[(a: number) -> number]]      --[[() -> nil]]      s = "s"
\*     x = function(a)                  function f(a)        t = { a = 1, 2, 3, [true] = "x" }
\*     end                                return a
\*                                      end
\*     local t = { a = 1 }
LocalTableText ==
    [ast |-> Script(<<Local("t", <<TableNode(<<TableField("name", 1, "NumericLiteral")>>)>>, 70, 3, 0)>>,
                    FALSE),
     error |-> Undefined, include |-> Undefined]

QueryTexts ==
    {AnonymousText, FewerText, [ast |-> TableExample, error |-> Undefined, include |-> Undefined],
     LocalTableText}

\* the Document of a text, parsed and walked
WalkedDocument(text) ==
    changeExplore(changeParse(NewDocument([docs |-> <<>>, luts |-> <<>>, scopes |-> <<>>]),
                              1, text, Unreadable, "all").heap,
                  1, "all", <<>>).heap

\* where the queries ask: before the text, at the names of its lines, after
\* `{`, past the text
QueryPositions == {Pos(0, 0), Pos(1, 0), Pos(1, 9), Pos(2, 0), Pos(2, 5), Pos(8, 0), Pos(8, 9)}

\* the word before the cursor: none, a parenthesis, the names of the texts,
\* a name that no text has, a name of Object.prototype
Identifiers == {"", ")", "x", "f", "a", "s", "t", "zz", "toString"}

\* the items to resolve: those of the completions, and one without data
ListItems(result) ==
    IF result = Null THEN {} ELSE {result.list[i] : i \in 1..Len(result.list)}

Items(heap, d) ==
    {[label |-> "zz", recent |-> Undefined], [label |-> "zz", recent |-> Pos(7, 7)]}
    \cup UNION {ListItems(handleOnCompletion(heap, d, position)) : position \in QueryPositions}

InitQueries ==
    /\ \E text \in QueryTexts : store = WalkedDocument(text)
    /\ cache = 1
    /\ calls = <<>>
    /\ dontBother = "all"
    /\ answer = NoAnswer
    /\ good = <<>>
    /\ IdleQuery

\* a call of a handler as it arrives
Call(handler, position, identifier, trigger) ==
    [pc |-> "called", handler |-> handler, position |-> position, identifier |-> identifier,
     trigger |-> trigger, item |-> Undefined, variable |-> Undefined, k |-> 0, f |-> FALSE, result |-> Undefined]

CallHover ==
    /\ query.pc = "idle"
    /\ \E position \in QueryPositions :
        query' = Returned(Call("hover", position, "", FALSE), handleOnHover(store, cache, position))
    /\ UNCHANGED <<typeVars, walkVars, sessionVars>>

CallHighlight ==
    /\ query.pc = "idle"
    /\ \E position \in QueryPositions :
        query' = Returned(Call("highlight", position, "", FALSE),
                          handleOnDocumentHighlight(store, cache, position))
    /\ UNCHANGED <<typeVars, walkVars, sessionVars>>

CallCompletion ==
    /\ query.pc = "idle"
    /\ \E position \in QueryPositions, identifier \in Identifiers, trigger \in BOOLEAN :
        query' = completionCall(store, cache, Call("completion", position, identifier, trigger))
    /\ UNCHANGED <<typeVars, walkVars, sessionVars>>

CompletionLoop ==
    /\ query.pc = "loop" /\ query.handler = "completion"
    /\ query' = completionLoop(query)
    /\ UNCHANGED <<typeVars, walkVars, sessionVars>>

CallCompletionResolve ==
    /\ query.pc = "idle"
    /\ \E item \in Items(store, cache) :
        query' = Returned([Call("resolve", item.recent, item.label, FALSE) EXCEPT !.item = item],
                          handleOnCompletionResolve(store, cache, item))
    /\ UNCHANGED <<typeVars, walkVars, sessionVars>>

CallSignatureHelp ==
    /\ query.pc = "idle"
    /\ \E position \in QueryPositions, identifier \in Identifiers :
        query' = signatureCall(store, cache, Call("signature", position, identifier, FALSE))
    /\ UNCHANGED <<typeVars, walkVars, sessionVars>>

SignatureLoop ==
    /\ query.pc = "loop" /\ query.handler = "signature"
    /\ query' = signatureLoop(query)
    /\ UNCHANGED <<typeVars, walkVars, sessionVars>>

\* the response is sent, or the error reported: the next request is handled
Respond ==
    /\ query.pc \in {"returned", "threw"}
    /\ query' = [pc |-> "idle"]
    /\ UNCHANGED <<typeVars, walkVars, sessionVars>>

NextQueries ==
    \/ CallHover
    \/ CallHighlight
    \/ CallCompletion
    \/ CompletionLoop
    \/ CallCompletionResolve
    \/ CallSignatureHelp
    \/ SignatureLoop
    \/ Respond

InitOfQueries == InitQueries /\ IdleTypes /\ IdleWalk

\* the queries of a walked Document; a handler that is in its loop runs on
SpecQueries ==
    /\ InitOfQueries
    /\ [][NextQueries]_vars
    /\ WF_vars(CompletionLoop)
    /\ WF_vars(SignatureLoop)

-----------------------------------------------------------------------------
(* Claims on the walker *)

\* the statement of the program walked
Statement == walk.ast.body[1]

\* an error diagnostic with that message has been recorded
Reported(message) ==
    \E i \in 1..Len(walk.diagnostics) :
        walk.diagnostics[i].severity = "Error" /\ walk.diagnostics[i].message = message

\* C4: explore() runs to its end without raising, whatever the program and
\* its doc comment: a return or a vararg outside any function only records
\* an error diagnostic, and a function under a doc comment naming fewer
\* parameters than it declares is walked to the end as well.
C4_ExploreNeverRaises ==
    wstage = "explored" =>
        /\ walk.threw = ""
        /\ Statement.type = "ReturnStatement" => Reported("no function to return from")
        /\ (Statement.type = "AssignmentStatement" /\ Statement.init[1].type = "VarargLiteral")
               => Reported("not in a function")

-----------------------------------------------------------------------------
(* Claims on the session *)

\* C1: with the changes processed one at a time, after a change whose text
\* the parser rejects, the four LUTs of the Document are the ones its last
\* finished walk left (the empty ones without such a walk), and hover,
\* completion, highlight and signature help answer as they did then.
C1_FailedParseKeepsLuts ==
    \A d \in 1..Len(store.docs) :
        (good[d].last = "syntax" /\ InFlight(d) = {}) =>
            /\ store.luts[store.docs[d].lut] = good[d].luts
            /\ Answers(store, d) = good[d].answers

\* a change was rejected by the parser after a walk had filled the LUTs
C1_RejectedAfterWalk ==
    \E d \in 1..Len(store.docs) :
        /\ good[d].last = "syntax" /\ InFlight(d) = {}
        /\ good[d].luts # EmptyLuts
        /\ \E c \in 1..Len(calls) : calls[c].doc = d /\ calls[c].text = BrokenText

\* C2: after a change that fails to parse, the document-symbol query returns
\* the symbol tree of the last finished walk.
C2_FailedParseKeepsSymbols ==
    \A d \in 1..Len(store.docs) :
        (good[d].last = "syntax" /\ InFlight(d) = {}) =>
            handleOnDocumentSymbol(store, d) = good[d].symbols

\* C3: an error of the walk that is no syntax error does not leave the
\* change handler: every call that has ended has returned, with a list of
\* diagnostics or, by the setting, null.
C3_ErrorsAreCaught ==
    \A c \in 1..Len(calls) :
        calls[c].pc \notin {"settings", "defines"} => calls[c].pc = "returned"

\* C5: no query runs on a Document between the reset of a content change
\* and the end of its walk.
C5_NoQueryDuringWalk == answer.kind # "none" => ~answer.midWalk

\* a Document under the ids of its scopes: the scope, with its chain
RECURSIVE ScopeView(_, _)
ScopeView(h, scope) ==
    IF scope = 0 THEN Null
    ELSE [tag |-> h.scopes[scope].tag, labels |-> h.scopes[scope].labels,
          variables |-> [i \in 1..Len(h.scopes[scope].variables) |->
              [h.scopes[scope].variables[i] EXCEPT
                  !.scopes = [j \in 1..Len(@) |-> h.scopes[@[j]].tag]]],
          parent |-> ScopeView(h, h.scopes[scope].parent)]

\* the LUTs, the global scope and the diagnostics of Document d
DocumentView(h, d) ==
    LET luts == h.luts[h.docs[d].lut]
        resolved(lut) == [key \in DOMAIN lut |-> [lut[key] EXCEPT !.scope = ScopeView(h, @)]]
    IN [lutVariables |-> resolved(luts.lutVariables), lutScopes |-> resolved(luts.lutScopes),
        lutFunctions |-> resolved(luts.lutFunctions), lutTables |-> luts.lutTables,
        globalScope |-> ScopeView(h, h.docs[d].globalScope),
        diagnostics |-> h.docs[d].diagnostics]

\* a content change processed to completion
runChange(h, d, text) ==
    LET continue(r) == IF r.pc = "defines" THEN changeExplore(r.heap, d, dontBother, <<>>).heap ELSE r.heap
    IN continue(changeParse(h, d, text, Unreadable, dontBother))

RECURSIVE runChanges(_, _, _)
\* the changes from the k-th on, each processed to completion before the next
runChanges(h, d, k) ==
    IF k > Len(calls) THEN h ELSE runChanges(runChange(h, d, calls[k].text), d, k + 1)

\* the changes so far all went to one Document and have all returned, and
\* the last one, B, started while the one before it, A, was at an await
OverlapEnded ==
    /\ Len(calls) >= 2
    /\ \A c \in 1..Len(calls) : calls[c].doc = 1 /\ calls[c].pc = "returned"
    /\ \A c \in 1..Len(calls) : calls[c].overlaps <=> c = Len(calls)

\* C6: for two changes A then B of a Document, B starting while A is at an
\* await, once both handlers have completed the LUTs, scopes and diagnostics
\* are the ones that A processed to completion, then B, would leave.
C6_OverlapEqualsSequential ==
    OverlapEnded =>
        DocumentView(store, 1)
            = DocumentView(runChanges(NewDocument([docs |-> <<>>, luts |-> <<>>, scopes |-> <<>>]), 1, 1), 1)

-----------------------------------------------------------------------------
(* Claims on the type algebra *)

\* a LuaType, as opposed to undefined, null or a thrown error
IsType(v) == v.k \notin {"undefined", "null", "throw"}

Represented == tstage \in {"represented", "parsed", "simplified", "resimplified", "compared"}

Parsed == tstage \in {"parsed", "simplified", "resimplified", "compared"}

Simplified == tstage \in {"simplified", "resimplified", "compared"}

Resimplified == tstage \in {"resimplified", "compared"}

Compared == tstage = "compared"

\* C7: for every type without a circular reference, parse(represent(T))
\* returns without throwing and its result is equivalent to T.
C7_ParseRepresentRoundTrip ==
    (Parsed /\ ~includes(outRepresent, "*circular*"))
        => (IsType(outParse) /\ equivalent(outParse, argA, 1) = "true")

\* C8: simplify(T) returns a type, simplify(simplify(T)) returns without
\* throwing, and the two results are structurally equal.
C8_SimplifyIdempotent ==
    Resimplified => (IsType(outSimplify) /\ IsType(outSimplify2) /\ outSimplify2 = outSimplify)

\* the members of a union, left to right; any other type is its own one member
Members(type) == IF HasOwnOr(type) THEN flattenBinaryTree(type) ELSE <<type>>

\* the members of a flattened union that are equivalent to no earlier member
Distinct(flat) ==
    LET first(i) == \A j \in 1..(i - 1) : equivalent(flat[j], flat[i], 1) # "true"
        RECURSIVE pick(_)
        pick(i) == IF i > Len(flat) THEN <<>>
                   ELSE (IF first(i) THEN <<flat[i]>> ELSE <<>>) \o pick(i + 1)
    IN pick(1)

NumberNumberString == <<"number", " ", "|", " ", "number", " ", "|", " ", "string">>

NumberString == <<"number", " ", "|", " ", "string">>

\* C9: simplify of a union returns the distinct members of the input, each
\* once, in first-occurrence order; simplify(parse("number | number | string"))
\* renders as "number | string".
C9_SimplifyUnionDistinct ==
    /\ (Simplified /\ HasOwnOr(argA)) =>
          /\ IsType(outSimplify)
          /\ LET got == Members(outSimplify)
                 want == Distinct(Members(argA))
             IN /\ Len(got) = Len(want)
                /\ \A i \in 1..Len(want) : equivalent(got[i], want[i], 1) = "true"
    /\ (Simplified /\ outRepresent = NumberNumberString) =>
          /\ IsType(outParse)
          /\ IsType(simplify(outParse, 1))
          /\ represent(simplify(outParse, 1), 1) = NumberString

RECURSIVE StructurallyEqual(_, _)

\* two optional parts: both absent, or both present and equal
OptionalEqual(x, y) == (Truthy(x) <=> Truthy(y)) /\ (Truthy(x) => StructurallyEqual(x, y))

\* two key-to-type maps: the same keys, with equal types
EntriesEqual(m, n) ==
    /\ {m[i].key : i \in 1..Len(m)} = {n[i].key : i \in 1..Len(n)}
    /\ \A i \in 1..Len(m) : \A j \in 1..Len(n) :
          m[i].key = n[j].key => OptionalEqual(m[i].type, n[j].type)

\* the value of a typed key of a table, undefined without one
TypedKey(table, key) == IF Truthy(table.typed) THEN getEntry(table.typed.keys, key) ELSE Undefined

RECURSIVE FoldFrom(_, _, _)
\* the sequence without the entries keyCounting, keyCounting+1, ... of the folded type
FoldFrom(sequence, keyCounting, number) ==
    IF Truthy(getEntry(sequence, keyCounting))
       /\ StructurallyEqual(getEntry(sequence, keyCounting), number)
    THEN FoldFrom(deleteEntry(sequence, keyCounting), keyCounting + 1, number)
    ELSE sequence

\* the numeric part of a table with the leading run of its sequence folded
\* into the number-typed key
NumericFold(table) ==
    LET first == getEntry(table.sequence, 1)
        number == TypedKey(table, "number")
    IN IF Truthy(first) /\ (~Truthy(number) \/ StructurallyEqual(first, number))
       THEN [sequence |-> FoldFrom(table.sequence, 1, first), number |-> first]
       ELSE [sequence |-> table.sequence, number |-> number]

StructurallyEqual(a, b) ==
    IF HasOwnOr(a) /\ HasOwnOr(b) THEN
        LET flatA == flattenBinaryTree(a)
            flatB == flattenBinaryTree(b)
        IN /\ \A i \in 1..Len(flatA) : \E j \in 1..Len(flatB) : StructurallyEqual(flatA[i], flatB[j])
           /\ \A j \in 1..Len(flatB) : \E i \in 1..Len(flatA) : StructurallyEqual(flatA[i], flatB[j])
    ELSE IF a.k # b.k THEN FALSE
    ELSE IF a.k = "tuple" THEN
        /\ Len(a.items) = Len(b.items)
        /\ \A i \in 1..Len(a.items) : StructurallyEqual(a.items[i], b.items[i])
    ELSE IF a.k = "fn" THEN
        /\ Len(a.parameters) = Len(b.parameters)
        /\ \A i \in 1..Len(a.parameters) :
              StructurallyEqual(a.parameters[i].type, b.parameters[i].type)
        /\ OptionalEqual(a.vararg, b.vararg)
        /\ OptionalEqual(a.return, b.return)
    ELSE IF a.k = "table" THEN
        /\ EntriesEqual(a.entries, b.entries)
        /\ EntriesEqual(NumericFold(a).sequence, NumericFold(b).sequence)
        /\ OptionalEqual(NumericFold(a).number, NumericFold(b).number)
        /\ OptionalEqual(TypedKey(a, "string"), TypedKey(b, "string"))
        /\ OptionalEqual(TypedKey(a, "boolean"), TypedKey(b, "boolean"))
        /\ OptionalEqual(a.true, b.true)
        /\ OptionalEqual(a.false, b.false)
    ELSE a = b

\* C10: equivalent(a, b) returns true exactly when a and b are structurally
\* equal up to the order of union members and the folding of numeric
\* sequences into the number-typed key, circular types included.
C10_EquivalentIsStructuralEquality ==
    Compared => (outEquivalent = "true" <=> StructurallyEqual(argA, argB))

-----------------------------------------------------------------------------
(* Claims on the recursion guards *)

GraphStage(stages) == tstage \in stages
\* the root object can be reached from itself
RootOnCycle == OnCycle(argA.heap, argA.root.at, FALSE)
HasToken(tokens, token) == \E i \in 1..Len(tokens) : tokens[i] = token

\* C11: represent, simplify and equivalent end on every type graph, the
\* self-referential ones included, and no call of their recursions is
\* entered deeper than MAX_DEPTH + 1: represent writes *circular* or *...*
\* where it cuts a cycle, simplify ends with a value (or with the TypeError
\* of its union branch) and equivalent with a boolean.
C11_GuardedRecursionEnds ==
    /\ GraphStage({"graph represented", "graph simplified", "graph compared"}) =>
          /\ outRepresent.deep <= MAX_DEPTH + 1
          /\ RootOnCycle =>
                HasToken(outRepresent.out, "*circular*") \/ HasToken(outRepresent.out, "*...*")
    /\ GraphStage({"graph simplified", "graph compared"}) =>
          /\ outSimplify.deep <= MAX_DEPTH + 1
          /\ \/ outSimplify.out = Thrown("TypeError")
             \/ outSimplify.out = Null
             \/ IsString(outSimplify.out)
             \/ /\ IsRef(outSimplify.out)
                /\ outSimplify.out.at \in 1..Len(outSimplify.heap)
    /\ GraphStage({"graph compared"}) =>
          /\ outEquivalent.deep <= MAX_DEPTH + 1
          /\ outEquivalent.out \in {"true", "false"}

\* a cycle through two objects, on which the three recursions run into the
\* depth guard
C11_CutAtTheGuard ==
    /\ GraphStage({"graph compared"})
    /\ RootOnCycle
    /\ ~OnCycle(argA.heap, 1, TRUE)
    /\ Len(argA.heap) = 2
    /\ HasToken(outRepresent.out, "*...*")
    /\ outRepresent.deep = MAX_DEPTH + 1
    /\ outSimplify.deep = MAX_DEPTH + 1
    /\ outEquivalent.deep = MAX_DEPTH + 1

-----------------------------------------------------------------------------
(* Claims on scopes and variables *)

\* the walker after the walk of a program
WalkOf(program) == explore(ScriptWalker(program))

\* the scope forked over the range of that line and column
ScopeFrom(w, line, column) ==
    w.lutScopes[CHOOSE k \in 1..Len(w.lutScopes) :
                    w.lutScopes[k].range.start = Pos(line - 1, column)].scope

\* the variable with one more reference at the range
Referenced(variable, range) ==
    [variable EXCEPT !.types = <<variable.types[1]>> \o @, !.ranges = <<range>> \o @,
                     !.scopes = <<variable.scopes[1]>> \o @]

\* what the walk of a shadow script must have left: `was` is the x of the
\* parent scope before the block, `now` after the walk, `own` the x of the block
ShadowLeft(child, was, now, own, declared, assigns, reads) ==
    /\ OwnIndex(walk.scopes[child].variables, "x") # 0
    /\ own.types[Len(own.types)] = declared
    /\ own.scopes[Len(own.scopes)] = child
    /\ own.types[1] = (IF assigns THEN TBoolean ELSE declared)
    /\ Truthy(was) /\ was.types[1] = TNumber
    /\ ~reads => now = was
    /\ reads => /\ now = Referenced(was, locToRange(ShadowAfter.init[1].loc))
                 /\ walk.lutVariables[<<3, 4>>].type = was.types[1]
                 /\ walk.lutVariables[<<3, 4>>].scope = was.scopes[1]
                 /\ Aug(walk, ShadowAfter.init[1]).augType = was.types[1]

ShadowAround(child, parent, before, init, assigns, reads) ==
    ShadowLeft(child, ScopeVariable(before.scopes, parent, "x"),
               ScopeVariable(walk.scopes, parent, "x"), ScopeVariable(walk.scopes, child, "x"),
               IF init = <<>> THEN TNil ELSE OrNil(Aug(walk, init[1]).augType), assigns, reads)

ShadowIn(child, before, init, assigns, reads) ==
    ShadowAround(child, walk.scopes[child].parent, before, init, assigns, reads)

ShadowHolds(isLocal, wrapped, init, assigns, reads) ==
    ShadowIn(ScopeFrom(walk, 3, 0),
             WalkOf(Script(<<ShadowOuter(isLocal)>>, wrapped)), init, assigns, reads)

\* C12: a declaration of x in a child scope makes an own entry of the
\* child's variables and leaves the types, ranges and scopes of the x of the
\* parent scope as they were; once the child scope is left, x is the
\* parent's variable again, with the parent's most recent type.
C12_ChildDeclarationShadows ==
    wstage = "explored" =>
        \A isLocal \in BOOLEAN, wrapped \in BOOLEAN, init \in ShadowInits,
           assigns \in BOOLEAN, reads \in BOOLEAN :
            walk.ast = ShadowScript(isLocal, wrapped, init, assigns, reads) =>
                walk.threw = "" /\ ShadowHolds(isLocal, wrapped, init, assigns, reads)

C12_ShadowedThenRead ==
    /\ wstage = "explored"
    /\ walk.ast = ShadowScript(TRUE, TRUE, <<Literal("StringLiteral", 23, 3, 13)>>, TRUE, TRUE)
    /\ ScopeVariable(walk.scopes, ScopeFrom(walk, 3, 0), "x").types = <<TBoolean, TString>>
    /\ walk.lutVariables[<<3, 4>>].type = TNumber

\* the type the handler of a literal gives it
LiteralType(literal) ==
    CASE literal = "NumericLiteral" -> TNumber
      [] literal = "StringLiteral" -> TString
      [] literal = "BooleanLiteral" -> TBoolean
      [] literal = "NilLiteral" -> TNil

GlobalLeft(own, seen, type) ==
    /\ Truthy(own) /\ own.types[1] = type
    /\ \A i \in 1..Len(walk.scopes) :
           i # walk.globalScope => OwnIndex(walk.scopes[i].variables, "z") = 0
    /\ walk.diagnostics = <<>>
    /\ seen.type = type /\ seen.scope = walk.globalScope
    /\ Aug(walk, GlobalRead).augType = type

-----------------------------------------------------------------------------
(* Claims on the types the walker infers and the warnings it gives *)

\* the walk is over and the program is `s = "s"`, `t = { ... }`
TableWalked ==
    /\ wstage = "explored" /\ walk.threw = "" /\ Len(walk.ast.body) = 2
    /\ walk.ast.body[2].type = "AssignmentStatement"
    /\ walk.ast.body[2].init[1].type = "TableConstructorExpression"

FieldsWalked == walk.ast.body[2].init[1].fields

IsNamed(field) == field.type = "TableKeyString"

IsPositional(field) == field.type = "TableValue"

IsKeyed(field, literal) == field.type = "TableKey" /\ field.key.type = literal

IsBranch(field, branch) == IsKeyed(field, "BooleanLiteral") /\ field.key.value = branch

\* the type of the value of the last field of the table with that key, undefined without one
LastBranch(fields, branch) ==
    LET hits == {k \in 1..Len(fields) : IsBranch(fields[k], branch)}
    IN IF hits = {} THEN Undefined
       ELSE LiteralType(fields[CHOOSE k \in hits : \A j \in hits : j <= k].value.type)

NilWarnings(fields) ==
    LET keys == SelectSeq(fields, LAMBDA field : IsKeyed(field, "NilLiteral"))
    IN [k \in 1..Len(keys) |->
           [message |-> "the table will not be indexable by 'nil'",
            range |-> locToRange(keys[k].key.loc), severity |-> "Warning"]]

\* the fields of that kind in source order, as entries under the keys given
EntriesOf(fields, key(_, _)) ==
    [k \in 1..Len(fields) |-> Entry(key(fields[k], k), LiteralType(fields[k].value.type))]

TableInferred(table, fields) ==
    /\ table.entries = EntriesOf(SelectSeq(fields, IsNamed), LAMBDA field, k : field.key.name)
    /\ table.true = LastBranch(fields, TRUE)
    /\ table.false = LastBranch(fields, FALSE)
    /\ walk.diagnostics = NilWarnings(fields)
    /\ SelectSeq(table.sequence, LAMBDA entry : entry.key < 7)
          = EntriesOf(SelectSeq(fields, IsPositional), LAMBDA field, k : k)
    /\ ScopeVariable(walk.scopes, walk.globalScope, "t").types[1] = table

\* C14: in the type of a table constructor every field `name = v` is the
\* entry `name`, every field with a literal boolean key is the true or the
\* false branch, a field with a key of type nil is left out with a warning,
\* and the sequence numbers 1, 2, ... go to the positional fields, in
\* source order, and to no other field.
C14_TableConstructorType ==
    TableWalked => TableInferred(Aug(walk, walk.ast.body[2].init[1]).augType, FieldsWalked)

\* the function declared by the statement of a one-statement program:
\* `function f(...) ... end` or `x = function(...) ... end`
FunctionOf(statement) ==
    IF statement.type = "AssignmentStatement" THEN statement.init[1] ELSE statement

\* the walk is over and the program is a function of the one parameter a
\* that returns a number, under the doc comment `(a: number) -> string`
ConflictWalked ==
    /\ wstage = "explored" /\ walk.threw = "" /\ Len(walk.ast.body) = 1
    /\ walk.ast.comments # <<>>
    /\ walk.ast.comments[1].value = represent(Function(<<Param("a", TNumber)>>, Undefined, TString), 1)
    /\ walk.ast.body[1].type \in {"AssignmentStatement", "FunctionDeclaration"}
    /\ FunctionOf(walk.ast.body[1]).type = "FunctionDeclaration"
    /\ Len(FunctionOf(walk.ast.body[1]).parameters) = 1
    /\ FunctionOf(walk.ast.body[1]).parameters[1].type = "Identifier"
    /\ FunctionOf(walk.ast.body[1]).body \in
          { <<Return(<<Node("NumericLiteral", 5, Loc(3, 9, 3, 10))>>)>>,
            <<Return(<<Ident("a", 5, Loc(3, 9, 3, 10))>>)>> }

Conflicting(range) ==
    [message |-> "signature is conflicting with the doc comment's type",
     range |-> range, severity |-> "Warning"]

\* the range of the identifier, of the whole declaration without one
SignatureRange(fun) ==
    locToRange(IF Truthy(fun.identifier) THEN fun.identifier.loc ELSE fun.loc)

\* the name the function is bound to: its identifier, or the target of the assignment
BoundName(statement) ==
    IF statement.type = "AssignmentStatement" THEN statement.variables[1].name
    ELSE statement.identifier.name

\* the type of the doc comment is the type of the function node and of the
\* variable, which is what the handler of a call compares the arguments with
DocTypeBound(fun, name, docType) ==
    /\ isLuaFunction(docType) /\ docType.return = TString
    /\ Aug(walk, fun).augType = docType
    /\ ScopeVariable(walk.scopes, walk.globalScope, name).types[1] = docType

\* C15: a function under the doc comment `(a: number) -> string` whose body
\* returns a number gets exactly one warning that its signature is
\* conflicting, at the range of its identifier (of its signature without
\* one), and the type of the name is the type of the doc comment.
C15_OneConflictWarning ==
    ConflictWalked =>
        /\ walk.diagnostics = <<Conflicting(SignatureRange(FunctionOf(walk.ast.body[1])))>>
        /\ DocTypeBound(FunctionOf(walk.ast.body[1]), BoundName(walk.ast.body[1]),
                        walk.docLineMap[0].value.type)

\* C15, amended: the function gets one warning that its signature is
\* conflicting at the range of its identifier (of its signature without
\* one) and one more at the range of each return statement of its body, and
\* no other warning; the type of the name is the type of the doc comment.
C15_ConflictWarnedAtNameAndReturns ==
    ConflictWalked =>
        /\ walk.diagnostics =
              <<Conflicting(SignatureRange(FunctionOf(walk.ast.body[1])))>>
              \o [k \in 1..Len(FunctionOf(walk.ast.body[1]).body) |->
                     Conflicting(locToRange(FunctionOf(walk.ast.body[1]).body[k].loc))]
        /\ DocTypeBound(FunctionOf(walk.ast.body[1]), BoundName(walk.ast.body[1]),
                        walk.docLineMap[0].value.type)

C15_ConflictOnNamedFunction ==
    /\ ConflictWalked
    /\ walk.ast.body[1].type = "FunctionDeclaration"
    /\ Len(walk.diagnostics) = 2
    /\ walk.diagnostics[2].range = locToRange(Loc(3, 2, 3, 10))
    /\ ScopeVariable(walk.scopes, walk.globalScope, "f").types[1].return = TString

\* the walk is over and the program is a numeric for statement
ForWalked(statement) ==
    /\ wstage = "explored" /\ walk.threw = ""
    /\ statement.type = "ForNumericStatement"

\* the statement of a one-statement program
ForOf(program) == program.body[1]

\* the warning the claim has for an expression of that type, none for no expression
NumberExpected(it, type) ==
    IF Truthy(it) /\ type # Undefined /\ type # TNumber /\ type # TAny
    THEN <<[message |-> <<"expected a number, got ">> \o represent(type, 1),
            range |-> locToRange(it.loc), severity |-> "Warning"]>>
    ELSE <<>>

ForWarnings(for) ==
    NumberExpected(for.start, Aug(walk, for.start).augType)
    \o NumberExpected(for.end, Aug(walk, for.end).augType)
    \o (IF for.step = Null THEN <<>> ELSE NumberExpected(for.step, Aug(walk, for.step).augType))

\* C16: a numeric for statement gives the warning "expected a number, got
\* <type>" at the range of its start, end or step expression exactly when
\* the type of that expression is defined and neither number nor any; the
\* statement `for i=1,"x" do end` gives it once, for string, at the literal.
C16_ForBoundsAreNumbers ==
    ForWalked(ForOf(walk.ast)) =>
        /\ walk.diagnostics = ForWarnings(ForOf(walk.ast))
        /\ walk.ast = ForExample =>
              walk.diagnostics = <<[message |-> <<"expected a number, got ", "string">>,
                                    range |-> [start |-> Pos(1, 12), end |-> Pos(1, 13)],
                                    severity |-> "Warning"]>>

C16_WarnedOnceNextToAny ==
    /\ ForWalked(ForOf(walk.ast))
    /\ walk.ast = ForScript("g", "NilLiteral", "u")
    /\ Aug(walk, ForOf(walk.ast).start).augType = TAny
    /\ Aug(walk, ForOf(walk.ast).step).augType = Undefined
    /\ walk.diagnostics = <<[message |-> <<"expected a number, got ", "nil">>,
                             range |-> [start |-> Pos(1, 12), end |-> Pos(1, 13)],
                             severity |-> "Warning"]>>

\* the walk is over and the program ends in the call of a name
CallWalked ==
    /\ wstage = "explored" /\ walk.threw = "" /\ Len(walk.ast.body) = 2
    /\ walk.ast.body[2].type = "CallStatement"

CallOf(program) == program.body[2].expression

\* some diagnostic is at the range of the node
WarnedAt(node) ==
    \E k \in 1..Len(walk.diagnostics) :
        /\ walk.diagnostics[k].range = locToRange(node.loc)
        /\ walk.diagnostics[k].severity = "Warning"

\* the argument and the parameter are of known types that are not equivalent
Mismatch(type, expected) ==
    /\ type # Undefined /\ type # TAny /\ expected # TAny
    /\ ~StructurallyEqual(expected, type)

\* the arguments that have a parameter get a warning exactly on a mismatch
ArgumentsChecked(call, fnType) ==
    \A k \in 1..Len(call.arguments) :
        k <= Len(fnType.parameters) =>
            (WarnedAt(call.arguments[k])
                <=> Mismatch(Aug(walk, call.arguments[k]).augType, fnType.parameters[k].type))

\* f(true) with a declared as number gives one warning, at the argument; f(1) gives none
CallExamples ==
    /\ walk.ast = CallScript(represent(Function(<<Param("a", TNumber)>>, Undefined, TNil), 1),
                             "f", <<"BooleanLiteral">>)
          => Len(walk.diagnostics) = 1 /\ WarnedAt(CallOf(walk.ast).arguments[1])
    /\ walk.ast = CallScript(represent(Function(<<Param("a", TNumber)>>, Undefined, TNil), 1),
                             "f", <<"NumericLiteral">>)
          => walk.diagnostics = <<>>

\* C17: in a call of a name whose type is a function, the argument k gets
\* a warning at its range exactly when its type is defined, neither its
\* type nor the type declared for the parameter k is any, and the two
\* types are not equivalent; with a declared as number, f(true) gives one
\* warning at the argument and f(1) none.
C17_ArgumentsAgainstParameters ==
    (CallWalked /\ isLuaFunction(Aug(walk, CallOf(walk.ast).base).augType)) =>
        /\ ArgumentsChecked(CallOf(walk.ast), Aug(walk, CallOf(walk.ast).base).augType)
        /\ CallExamples

-----------------------------------------------------------------------------
(* Claims on the links of the #include directives *)

\* the first line of the content holds "pico-8 cartridge" somewhere
HeaderOnFirstLine(content) ==
    LET n == indexOf(content, "\n")
        first == IF n = -1 THEN content ELSE SubSeq(content, 1, n)
    IN \E i \in 1..(Len(first) - Len(Header) + 1) : SubSeq(first, i, i + Len(Header) - 1) = Header

\* the tooltip of the link of Document d after the step
TooltipAfter(d) == store'.docs[d].includes[1].tooltip

\* C18: when the file that an #include directive names can be read, the
\* tooltip of its link is "PICO-8 include (includes `__lua__` sections)"
\* exactly when the first line of the file contains the header
\* "pico-8 cartridge", and "raw include (includes the whole file)" otherwise.
C18_TooltipTellsHeader ==
    [][\A c \in 1..Len(calls) : \A content \in Contents :
         ReadText(c, IncludeText, File(content)) =>
            TooltipAfter(calls[c].doc)
                = IF HeaderOnFirstLine(content)
                  THEN <<"PICO-8 include (includes ", BQ, "__lua__", BQ, " sections)">>
                  ELSE <<"raw include (includes the whole file)">>]_vars

-----------------------------------------------------------------------------
(* Claims on the queries *)

\* the variable that the identifier of the query names where it asks
Named(q) ==
    IF Truthy(findScope(store, cache, q.position))
    THEN ScopeVariable(store.scopes, findScope(store, cache, q.position).scope, q.identifier)
    ELSE Undefined

\* nothing matches the query: no entry of the LUT at its position, or no
\* variable of its identifier, or none whose most recent type is of the kind asked for
NothingMatches(q) ==
    CASE q.handler \in {"hover", "highlight"} -> ~Truthy(findVariable(store, cache, q.position))
      [] q.handler = "resolve" ->
            ~Truthy(q.item.recent) \/ ~Truthy(findVariable(store, cache, q.item.recent))
      [] q.handler = "signature" ->
            IF q.identifier \in {"", ")"} THEN ~Truthy(findFunction(store, cache, q.position))
            ELSE ~Truthy(Named(q)) \/ ~isLuaFunction(Named(q).types[1])
      [] q.handler = "completion" ->
            IF ~q.trigger THEN ~Truthy(findScope(store, cache, q.position))
            ELSE IF q.identifier = "" THEN ~Truthy(findTable(store, cache, q.position))
            ELSE ~Truthy(Named(q)) \/ ~isLuaTable(Named(q).types[1])

\* no handler has thrown, and one that has returned where nothing matches has returned null
NullWithoutThrowing ==
    /\ query.pc # "threw"
    /\ (query.pc = "returned" /\ NothingMatches(query)) => query.result = Null

\* C19: every query handler of a Document (hover, completion, completion
\* resolve, highlight, signature help) ends for every position and
\* identifier, and returns null without throwing when nothing matches; so
\* does the signature help on an identifier that names a visible variable
\* whose most recent type is not a function.
C19_QueriesEndAndReturnNull ==
    /\ []NullWithoutThrowing
    /\ [](query.pc = "loop" => <>(query.pc = "returned"))

-----------------------------------------------------------------------------
(* Claims on the manager *)

\* C20: the manager maps the uri to a single Document: over any sequence
\* or interleaving of content changes, two changes of a uri not yet in the
\* cache of which the second arrives while the first is awaited included,
\* at most one Document is created for the uri, and every change and
\* every query of the uri is served by it.
C20_OneDocumentOfUri ==
    /\ Len(store.docs) <= 1
    /\ \A c \in 1..Len(calls) : calls[c].doc = 1
    /\ cache \in {0, 1}

-----------------------------------------------------------------------------
(* Claims on the declarations *)

\* the statements of a script, inside its `do ... end` if it has one
BodyOf(program) ==
    IF program.body[1].type = "DoStatement" /\ program.body[1].id = 2
    THEN program.body[1].body ELSE program.body

\* the two `local` statements of a script of declarations
FirstLocal(program) == BodyOf(program)[1]

SecondLocal(program) ==
    IF BodyOf(program)[2].type = "DoStatement" THEN BodyOf(program)[2].body[1]
    ELSE BodyOf(program)[2]

\* the second name is, when it is declared, an own variable of the current scope
DeclaredTwice(program) ==
    /\ BodyOf(program)[2].type = "LocalStatement"
    /\ FirstLocal(program).variables[1].name = SecondLocal(program).variables[1].name

\* the scope that the walk recorded for the identifier
ScopeOf(identifier) ==
    Get(walk.lutVariables, <<identifier.loc.start.line - 1, identifier.loc.start.column>>).scope

\* the variable made by the first statement, as it is after the walk
FirstVariable(program) ==
    IF Truthy(Get(walk.lutVariables, <<1, FirstLocal(program).variables[1].loc.start.column>>))
    THEN ScopeVariable(walk.scopes, ScopeOf(FirstLocal(program).variables[1]),
                       FirstLocal(program).variables[1].name)
    ELSE Undefined

\* the oldest entry of the history is the one of the first declaration
FirstEntryKept(variable, identifier) ==
    /\ Truthy(variable)
    /\ variable.types[Len(variable.types)] = TNumber
    /\ variable.ranges[Len(variable.ranges)] = locToRange(identifier.loc)
    /\ Len(variable.types) = Len(variable.ranges)

\* C21: declaring a name that is already an own variable of the scope (a
\* second `local x` in the same scope) does not throw, leaves the history
\* that the variable had as it was, and records a diagnostic; the warning
\* "already a local variable" is given exactly for the names that are own
\* variables of the current scope.
C21_RedeclarationWarned ==
    (wstage = "explored" /\ walk.ast \in LocalScripts) =>
        /\ walk.threw = ""
        /\ FirstEntryKept(FirstVariable(walk.ast), FirstLocal(walk.ast).variables[1])
        /\ WarnedAt(SecondLocal(walk.ast).variables[1]) <=> DeclaredTwice(walk.ast)

-----------------------------------------------------------------------------
(* explore.ts: variableDeclare, variableUpdate and variableReference as a  *)
(* state machine: the calls that the handlers make, in any order, on the   *)
(* global scope and one scope forked from it.                              *)

\* the entries that the histories of the variables hold together, at most
MaxHistory == 3

VariableNames == {"x", "y"}

VariableTypes == {TNumber, TString}

\* the ranges of the identifiers: two that start at the same place, one that does not
VariableRanges ==
    { [start |-> Pos(1, 0), end |-> Pos(1, 1)], [start |-> Pos(1, 0), end |-> Pos(1, 2)],
      [start |-> Pos(2, 0), end |-> Pos(2, 1)] }

RECURSIVE SumOf(_)
SumOf(numbers) == IF numbers = <<>> THEN 0 ELSE Head(numbers) + SumOf(Tail(numbers))

\* the entries of all the histories
HistorySize(w) ==
    SumOf([s \in 1..Len(w.scopes) |->
            SumOf([i \in 1..Len(w.scopes[s].variables) |-> Len(w.scopes[s].variables[i].types)])])

\* the walker in the handler of the chunk: the current scope is the global one
InitVariables ==
    /\ walk = [NewSelfExplore EXCEPT !.currentScope = NewSelfExplore.globalScope]
    /\ wstage = "chunk"

ForkScope ==
    /\ wstage # "idle"
    /\ Len(walk.scopes) < 2
    /\ walk' = scopeFork(walk, [start |-> Pos(1, 0), end |-> Pos(3, 0)], "do line 1")
    /\ wstage' = "forked"
    /\ UNCHANGED <<typeVars, sessionVars, queryVars>>

RestoreScope ==
    /\ wstage # "idle"
    /\ walk.currentScope # walk.globalScope
    /\ walk' = scopeRestore(walk, walk.scopes[walk.currentScope].parent)
    /\ wstage' = "restored"
    /\ UNCHANGED <<typeVars, sessionVars, queryVars>>

\* a scope that a handler passes: the current one, or the global one
CallDeclare ==
    /\ wstage # "idle"
    /\ HistorySize(walk) < MaxHistory
    /\ \E name \in VariableNames, range \in VariableRanges, type \in VariableTypes,
          scope \in {walk.currentScope, walk.globalScope} :
            walk' = variableDeclare(walk, name, range, type, scope)
    /\ wstage' = "declared"
    /\ UNCHANGED <<typeVars, sessionVars, queryVars>>

CallUpdate ==
    /\ wstage # "idle"
    /\ HistorySize(walk) < MaxHistory
    /\ \E name \in VariableNames, range \in VariableRanges, type \in VariableTypes,
          scope \in {walk.currentScope, walk.globalScope} :
            walk' = variableUpdate(walk, name, range, type, scope)
    /\ wstage' = "updated"
    /\ UNCHANGED <<typeVars, sessionVars, queryVars>>

CallReference ==
    /\ wstage # "idle"
    /\ HistorySize(walk) < MaxHistory
    /\ \E name \in VariableNames, range \in VariableRanges :
            walk' = variableReference(walk, name, range)
    /\ wstage' = "referenced"
    /\ UNCHANGED <<typeVars, sessionVars, queryVars>>

NextVariables ==
    \/ ForkScope
    \/ RestoreScope
    \/ CallDeclare
    \/ CallUpdate
    \/ CallReference

InitOfVariables == InitVariables /\ IdleTypes /\ IdleSession

\* the three calls on their own
SpecVariables == InitOfVariables /\ [][NextVariables]_vars

-----------------------------------------------------------------------------
(* Claims on the histories of the variables *)

\* the three arrays of every variable are as long as each other, and not empty
HistoriesAligned ==
    \A s \in 1..Len(walk.scopes) : \A i \in 1..Len(walk.scopes[s].variables) :
        LET variable == walk.scopes[s].variables[i]
        IN /\ Len(variable.types) >= 1
           /\ Len(variable.types) = Len(variable.ranges)
           /\ Len(variable.ranges) = Len(variable.scopes)

\* from `was` to `now` the first type and scope are the same, and the
\* history is one entry longer unless the range starts where the last one did
ReferenceAdds(was, now, range) ==
    /\ now.types[1] = was.types[1]
    /\ now.scopes[1] = was.scopes[1]
    /\ Len(now.types) = Len(was.types) + (IF was.ranges[1].start = range.start THEN 0 ELSE 1)
    /\ SubSeq(now.types, Len(now.types) - Len(was.types) + 1, Len(now.types)) = was.types

\* a step that is a call of variableReference on a visible variable
ReferenceStep(name, range) ==
    /\ wstage' = "referenced"
    /\ walk' = variableReference(walk, name, range)
    /\ Truthy(ScopeVariable(walk.scopes, walk.currentScope, name))

\* C22: after any sequence of calls of variableDeclare, variableUpdate and
\* variableReference, the types, ranges and scopes of every variable are
\* of the same length, at least 1; variableReference never changes the
\* value of types[0] or of scopes[0], and adds no entry to the history when
\* the most recent entry starts where the referenced range starts, and
\* exactly one otherwise.
C22_HistoriesStayAligned ==
    /\ []HistoriesAligned
    /\ [][\A name \in VariableNames : \A range \in VariableRanges :
            ReferenceStep(name, range) =>
                ReferenceAdds(ScopeVariable(walk.scopes, walk.currentScope, name),
                              ScopeVariable(walk'.scopes, walk'.currentScope, name), range)]_vars

\* a variable declared, updated from the scope forked, and then referenced
\* at another place: three entries, the first two of one type
C22_ReferencedAfterUpdate ==
    /\ wstage = "referenced"
    /\ Len(walk.scopes) = 2
    /\ \E i \in 1..Len(walk.scopes[1].variables) :
        LET variable == walk.scopes[1].variables[i]
        IN /\ Len(variable.types) = 3
           /\ variable.types[1] = variable.types[2]
           /\ variable.types[2] # variable.types[3]
           /\ variable.ranges[1].start # variable.ranges[2].start
           /\ variable.scopes[1] = 2

-----------------------------------------------------------------------------
(* Claims on the labels *)

RECURSIVE GotoIn(_)
\* the goto of a script of labels: the last statement, inside its blocks
GotoIn(body) ==
    IF body[Len(body)].type = "DoStatement" THEN GotoIn(body[Len(body)].body)
    ELSE body[Len(body)]

\* the label is declared before the goto in its scope or in an enclosing one
LabelVisible(program) ==
    /\ Len(BodyOf(program)) = 2
    /\ BodyOf(program)[1].type = "LabelStatement"

\* the LUT has an entry for the label of the goto
LabelLocated(goto) ==
    /\ Truthy(Get(walk.lutVariables, <<goto.label.loc.start.line - 1, goto.label.loc.start.column>>))
    /\ Get(walk.lutVariables, <<goto.label.loc.start.line - 1, goto.label.loc.start.column>>).name
          = goto.label.name

\* C23: a goto finds its label along the chain of the scopes: when the
\* label was declared in the current scope or in a scope that encloses it,
\* the goto gives no warning and the LUT gets an entry for the label; the
\* warning "label not defined or not visible" is given only when no scope
\* of the chain declares the label.
C23_GotoSeesEnclosingLabels ==
    (wstage = "explored" /\ walk.ast \in GotoScripts) =>
        /\ walk.threw = ""
        /\ LabelVisible(walk.ast) => (walk.diagnostics = <<>> /\ LabelLocated(GotoIn(BodyOf(walk.ast))))
        /\ ~LabelVisible(walk.ast) => WarnedAt(GotoIn(BodyOf(walk.ast)))

-----------------------------------------------------------------------------
(* Claims on the context stack and the current scope *)

\* the walker in the handler of the chunk, before the first statement
Entered(w) ==
    [contextPush(docGather(w), w.ast) EXCEPT
        !.currentScope = w.globalScope,
        !.lutScopes = Append(@, [range |-> locToRange(w.ast.loc), scope |-> w.globalScope])]

\* the handler has returned from `was` to `now` with the stack and the scope it found
Balanced(was, now) ==
    now.threw = "" =>
        /\ now.contextStack = was.contextStack
        /\ now.currentScope = was.currentScope

RECURSIVE StatementsBalanced(_, _, _)
\* every statement from the k-th on is handled with the stack and the
\* scope the same at its end as at its start
StatementsBalanced(w, body, k) ==
    IF k > Len(body) \/ w.threw # "" THEN TRUE
    ELSE /\ Balanced(w, visit(w, body[k]))
         /\ StatementsBalanced(visit(w, body[k]), body, k + 1)

\* explore() has returned: nothing is on the stack, the scope is the global one
LeftAtTheTop ==
    (wstage = "explored" /\ walk.threw = "") =>
        /\ walk.contextStack = <<>>
        /\ walk.currentScope = walk.globalScope

-----------------------------------------------------------------------------
(* Claims on the lookups by position *)

\* the Document that the walker is the SelfExplore part of
DocumentOf(w) ==
    Assign(NewDocument([docs |-> <<>>, luts |-> <<>>, scopes |-> <<>>]), 1, 1, w)

\* where the cursor is put: on and off the lines of the scripts, at their
\* start, inside, and past the end of their blocks
CursorLines == {0, 1, 2, 3, 8, 9}

CursorCharacters == {0, 1, 30, 61}

CursorPositions == {Pos(line, character) : line \in CursorLines, character \in CursorCharacters}

\* p is at or before q, by the line and then by the character
AtOrBefore(p, q) == p.line < q.line \/ (p.line = q.line /\ p.character <= q.character)

\* start <= position <= end
Within(range, position) == AtOrBefore(range.start, position) /\ AtOrBefore(position, range.end)

\* the entry that the claim names: the last one recorded whose range has
\* the position, the first one recorded when no range has it
InnermostWithin(lutScopes, position) ==
    LET hits == {k \in 1..Len(lutScopes) : Within(lutScopes[k].range, position)}
    IN IF hits # {} THEN lutScopes[CHOOSE k \in hits : \A j \in hits : j <= k]
       ELSE lutScopes[1]

\* explore() has returned and has recorded scopes
ScopesRecorded == wstage = "explored" /\ walk.threw = "" /\ walk.lutScopes # <<>>

\* C25: findScope(position) returns the innermost recorded scope whose
\* range contains the position, where a range contains a position when
\* start <= position <= end in the order of (line, character); a scope
\* that does not contain the position is returned only as the first
\* (global) entry, when no range contains it.
C25_InnermostScopeContaining ==
    ScopesRecorded =>
        \A position \in CursorPositions :
            findScope(DocumentOf(walk), 1, position) = InnermostWithin(walk.lutScopes, position)

\* the entries of a LUT
Located(lut) == {lut[key] : key \in DOMAIN lut}

\* the position `characters` after the end of a range
After(range, characters) == Pos(range.end.line, range.end.character + characters)

\* every identifier located is found at its start
VariablesFoundAtStart ==
    \A entry \in Located(walk.lutVariables) :
        findVariable(DocumentOf(walk), 1, entry.range.start) = entry

\* every table constructor located is found one character after its end
TablesFoundAfterEnd ==
    \A entry \in Located(walk.lutTables) :
        findTable(DocumentOf(walk), 1, After(entry.range, 1)) = entry

\* every function literal located is found that many characters after its end
FunctionsFoundAfterEnd(characters) ==
    \A entry \in Located(walk.lutFunctions) :
        findFunction(DocumentOf(walk), 1, After(entry.range, characters)) = entry

\* C26: an identifier is found by findVariable exactly at its start
\* position, and an anonymous function literal or a table constructor whose
\* range ends at (line, c) is found by findFunction, respectively findTable,
\* at the position (line, c+1), one character after its end.
C26_FoundOneAfterEnd ==
    (wstage = "explored" /\ walk.threw = "") =>
        /\ VariablesFoundAtStart
        /\ TablesFoundAfterEnd
        /\ FunctionsFoundAfterEnd(1)

\* C26, amended: an identifier is found by findVariable exactly at its start
\* position, a table constructor whose range ends at (line, c) is found by
\* findTable at (line, c+1), and an anonymous function literal whose range
\* ends at (line, c) is found by findFunction at (line, c+2), past the
\* parenthesis that closes it and the one that opens its call.
C26_FoundAfterEnd ==
    (wstage = "explored" /\ walk.threw = "") =>
        /\ VariablesFoundAtStart
        /\ TablesFoundAfterEnd
        /\ FunctionsFoundAfterEnd(2)

\* a function literal assigned to a name has been located, and is not
\* found one character after its end
C26_FunctionLocated ==
    /\ wstage = "explored"
    /\ walk.threw = ""
    /\ walk.lutVariables # << >>
    /\ \E entry \in Located(walk.lutFunctions) :
        /\ findFunction(DocumentOf(walk), 1, After(entry.range, 2)) = entry
        /\ ~Truthy(findFunction(DocumentOf(walk), 1, After(entry.range, 1)))

-----------------------------------------------------------------------------
(* Claims on the returns *)

\* the type of a value list: 'nil' for none, the type of the one, the list of several
ValueOf(kind) ==
    CASE kind = "empty" -> TNil
      [] kind = "number" -> TNumber
      [] kind = "string" -> TString
      [] kind = "pair" -> Tuple(<<TNumber, TString>>)

RECURSIVE LeftUnion(_)
\* ((a | b) | c) of the types a, b, c; 'nil' of none
LeftUnion(types) ==
    IF types = <<>> THEN TNil
    ELSE IF Len(types) = 1 THEN types[1]
    ELSE Union(LeftUnion(SubSeq(types, 1, Len(types) - 1)), types[Len(types)])

\* the value lists of the returns of f, in the order of the source
ReturnsOf(first, second, third) ==
    LET kinds == SelectSeq(<<first, second, third>>, LAMBDA kind : kind # "none")
    IN [k \in 1..Len(kinds) |-> ValueOf(kinds[k])]

\* the type that the walk has given to the function declared by `node`
Inferred(node) == Aug(walk, node).augType

\* the walk of ReturnScript(first, second, third, nested) is over
ReturnsWalked(first, second, third, nested) ==
    /\ wstage = "explored"
    /\ walk.threw = ""
    /\ walk.ast = ReturnScript(first, second, third, nested)

\* C27: the return type inferred for a function is the left-associated
\* union, in the order of the source, of the value lists of exactly the
\* return statements whose nearest enclosing function declaration is that
\* function (a return in a nested function counts for the nested one
\* only), and it is nil when there is none.
C27_ReturnIsUnionOfOwnReturns ==
    \A first \in ReturnKinds, second \in ReturnKinds, third \in ReturnKinds, nested \in BOOLEAN :
        ReturnsWalked(first, second, third, nested) =>
            /\ Inferred(walk.ast.body[1]).return = LeftUnion(ReturnsOf(first, second, third))
            /\ ScopeVariable(walk.scopes, walk.globalScope, "f").types[1].return
                    = LeftUnion(ReturnsOf(first, second, third))
            /\ nested => Inferred(InnerFunction.init[1]).return = TBoolean

\* three returns around a nested function that returns too: ((number | string) | [number, string])
C27_ThreeReturns ==
    /\ ReturnsWalked("number", "string", "pair", TRUE)
    /\ Inferred(walk.ast.body[1]).return
            = Union(Union(TNumber, TString), Tuple(<<TNumber, TString>>))
    /\ Inferred(InnerFunction.init[1]).return = TBoolean

-----------------------------------------------------------------------------
(* Claims on the members of a table *)

\* the walk of MemberScript(write, read) is over
MemberWalked(write, read) ==
    /\ wstage = "explored"
    /\ walk.threw = ""
    /\ walk.ast = MemberScript(write, read)

\* the type that the read of the last line has, and that x has got from it
TypeRead(type) ==
    LET statement == walk.ast.body[Len(walk.ast.body)]
    IN /\ Aug(walk, statement.init[1]).augType = type
       /\ ScopeVariable(walk.scopes, walk.globalScope, "x").types[1] = type

\* C28: after an assignment through a member or an index target with a
\* literal key on a known table (t.k = v, t["k"] = v, t[1] = v), a later
\* read of the same key through either form has the type of v; and an index
\* read with a literal key that names a known entry or a slot of the
\* sequence of the table has the type of that entry.
C28_ReadsWhatWasWritten ==
    /\ \A write \in Accesses, read \in Accesses :
        (write.key = read.key /\ MemberWalked(write, read)) => TypeRead(TString)
    /\ \A read \in Accesses :
        (read.form = "index" /\ read.key \in {"a", "1"} /\ MemberWalked(NoAccess, read))
            => TypeRead(TNumber)

-----------------------------------------------------------------------------
(* Claims on the completion of the fields *)

\* the entries of the history of a variable that are at or before the
\* position, by the line and then by the character
BoundBefore(variable, position) ==
    {i \in 1..Len(variable.ranges) : AtOrBefore(variable.ranges[i].start, position)}

\* the type of the most recent of them: the history has the newest first
MostRecentBound(variable, position) ==
    variable.types[CHOOSE i \in BoundBefore(variable, position) :
                        \A j \in BoundBefore(variable, position) : i <= j]

\* the string keys of a table, and the labels of the items of a response
StringKeys(type) == [i \in 1..Len(type.entries) |-> type.entries[i].key]

ItemLabels(result) == [i \in 1..Len(result) |-> result[i].label]

\* a completion asked with a trigger character after an identifier that
\* names a variable bound to a table at or before the cursor
TableBound(q) ==
    /\ q.pc = "returned"
    /\ q.handler = "completion"
    /\ q.trigger
    /\ q.identifier # ""
    /\ Truthy(Named(q))
    /\ BoundBefore(Named(q), q.position) # {}
    /\ isLuaTable(MostRecentBound(Named(q), q.position))
    /\ ~IsArray(MostRecentBound(Named(q), q.position))

\* C29: with a trigger character typed after the identifier X at the
\* cursor P, handleOnCompletion returns the string keys of the table type
\* most recently bound to X at or before P, the positions compared by the
\* line and then the character; in particular when the only entry of the
\* history of X is a declaration of a table type before P, the entries of
\* that table are returned.
C29_FieldsOfTheTableBound ==
    TableBound(query) =>
        /\ query.result # Null
        /\ ItemLabels(query.result) = StringKeys(MostRecentBound(Named(query), query.position))

-----------------------------------------------------------------------------
(* Claims on the simplification of a function *)

\* simplify(argA) has returned a type for the function argA
FunctionSimplified ==
    /\ tstage = "simplified"
    /\ isLuaFunction(argA)
    /\ Truthy(outSimplify)
    /\ ~IsThrown(outSimplify)

\* C30: simplify applied to a function type returns a new function with the
\* same parameter names in the same order, the type of each parameter being
\* the simplification of the type of the original parameter (never the
\* function under construction), and with the vararg and the return
\* simplified likewise.
C30_ParametersSimplified ==
    FunctionSimplified =>
        /\ isLuaFunction(outSimplify)
        /\ Len(outSimplify.parameters) = Len(argA.parameters)
        /\ \A i \in 1..Len(argA.parameters) :
            /\ outSimplify.parameters[i].name = argA.parameters[i].name
            /\ outSimplify.parameters[i].type # Self
            /\ outSimplify.parameters[i].type = simplify(argA.parameters[i].type, 2)
        /\ outSimplify.vararg = simplifyIf(argA.vararg, 1)
        /\ outSimplify.return = simplify(argA.return, 2)

=============================================================================
